---- MODULE Spec2Model ----
(***************************************************************************)
(* Model of the date/time engine of the form library:                      *)
(*   time.TimeParser (constructor + parse), time.strptime   (time.js)      *)
(*   strftime                                               (strftime.js)  *)
(*                                                                         *)
(* Text is modelled as a sequence of one-character strings, so that the    *)
(* scanner, the regular-expression match and parseInt are computed         *)
(* character by character as the code computes them.                       *)
(* JavaScript arrays are 0-based, TLA+ sequences 1-based: time[k] of the   *)
(* code is time[k+1] here.                                                 *)
(***************************************************************************)
EXTENDS Integers, Sequences, FiniteSets, TLC

\* ------------------------------------------------------------------------
\* Bounds of the model
\* ------------------------------------------------------------------------
MaxMonthIn  == 13   \* month values written into inputs: 0..MaxMonthIn
MaxDayIn    == 32   \* day values written into inputs: 0..MaxDayIn
MaxHourIn   == 24   \* hour values written into inputs: 0..MaxHourIn
MaxMinSecIn == 60   \* minute/second values written into inputs: 0..MaxMinSecIn
MaxYY       == 99   \* two-digit year values written into inputs: 0..MaxYY

\* ------------------------------------------------------------------------
\* Characters, digits, numbers
\* ------------------------------------------------------------------------
Digits == <<"0", "1", "2", "3", "4", "5", "6", "7", "8", "9">>

DigitChars == {Digits[i] : i \in 1..10}

IsDigit(c) == c \in DigitChars

DigitVal(c) == (CHOOSE i \in 1..10 : Digits[i] = c) - 1

\* \s of the regular expressions: the whitespace characters of the model
WhiteSpace == {" ", "\t"}

Min(a, b) == IF a < b THEN a ELSE b

SubStr(t, from, to) == [i \in 1..(to - from + 1) |-> t[from + i - 1]]

\* The value JavaScript names NaN.  Every number the parser reads is >= 0,
\* so a negative sentinel cannot collide with a parsed value; comparisons
\* and arithmetic go through the operators below, which give NaN its
\* JavaScript meaning (every comparison with NaN is false).
NaN == 0 - 1000000

JsLt(a, b) == a # NaN /\ b # NaN /\ a < b

JsGt(a, b) == a # NaN /\ b # NaN /\ a > b

JsEq(a, b) == a # NaN /\ b # NaN /\ a = b

JsAdd(a, b) == IF a = NaN \/ b = NaN THEN NaN ELSE a + b

JsMod(a, b) == IF a = NaN \/ b = NaN THEN NaN ELSE a % b

\* parseInt(s, 10) on a captured text: the longest prefix of decimal digits,
\* NaN when the text does not start with a digit.
RECURSIVE DigitPrefixLen(_, _)
DigitPrefixLen(s, i) ==
    IF i <= Len(s) /\ IsDigit(s[i]) THEN 1 + DigitPrefixLen(s, i + 1) ELSE 0

RECURSIVE DecValue(_, _)
DecValue(s, n) ==
    IF n = 0 THEN 0 ELSE 10 * DecValue(s, n - 1) + DigitVal(s[n])

parseInt(s) ==
    LET n == DigitPrefixLen(s, 1) IN IF n = 0 THEN NaN ELSE DecValue(s, n)

\* ------------------------------------------------------------------------
\* The locale table ak.culture
\* ------------------------------------------------------------------------
culture_months ==
    << <<"J","a","n","u","a","r","y">>,
       <<"F","e","b","r","u","a","r","y">>,
       <<"M","a","r","c","h">>,
       <<"A","p","r","i","l">>,
       <<"M","a","y">>,
       <<"J","u","n","e">>,
       <<"J","u","l","y">>,
       <<"A","u","g","u","s","t">>,
       <<"S","e","p","t","e","m","b","e","r">>,
       <<"O","c","t","o","b","e","r">>,
       <<"N","o","v","e","m","b","e","r">>,
       <<"D","e","c","e","m","b","e","r">> >>

culture_shortMonths ==
    << <<"J","a","n">>, <<"F","e","b">>, <<"M","a","r">>, <<"A","p","r">>,
       <<"M","a","y">>, <<"J","u","n">>, <<"J","u","l">>, <<"A","u","g">>,
       <<"S","e","p">>, <<"O","c","t">>, <<"N","o","v">>, <<"D","e","c">> >>

culture_am == <<"A","M">>

culture_pm == <<"P","M">>

\* ------------------------------------------------------------------------
\* time.TimeParser(format): the constructor
\* ------------------------------------------------------------------------

\* format.split(/(?:\s|%t|%n)+/).join(" "): every maximal run of whitespace
\* characters, "%t" and "%n" becomes one space.
SepLenAt(f, i) ==
    IF i > Len(f) THEN 0
    ELSE IF f[i] \in WhiteSpace THEN 1
    ELSE IF f[i] = "%" /\ i + 1 <= Len(f) /\ f[i + 1] \in {"t", "n"} THEN 2
    ELSE 0

RECURSIVE SepRunEnd(_, _)
SepRunEnd(f, i) ==
    IF SepLenAt(f, i) = 0 THEN i ELSE SepRunEnd(f, i + SepLenAt(f, i))

RECURSIVE NormaliseFrom(_, _)
NormaliseFrom(f, i) ==
    IF i > Len(f) THEN <<>>
    ELSE IF SepLenAt(f, i) > 0
         THEN <<" ">> \o NormaliseFrom(f, SepRunEnd(f, i))
         ELSE <<f[i]>> \o NormaliseFrom(f, i + 1)

Normalise(f) == NormaliseFrom(f, 1)

\* The scanner /(d{1,4}|M{1,4}|yyyy|yy|HH|H|hh|h|mm|m|ss|s|tt)/g: the length
\* of the token that starts at position i, 0 when none does.
RECURSIVE RunLen(_, _, _)
RunLen(f, i, c) ==
    IF i <= Len(f) /\ f[i] = c THEN 1 + RunLen(f, i + 1, c) ELSE 0

TokenLenAt(f, i) ==
    LET c == f[i]
        n == RunLen(f, i, c)
    IN  IF c \in {"d", "M"} THEN Min(n, 4)
        ELSE IF c = "y" THEN (IF n >= 4 THEN 4 ELSE IF n >= 2 THEN 2 ELSE 0)
        ELSE IF c \in {"H", "h", "m", "s"} THEN Min(n, 2)
        ELSE IF c = "t" THEN (IF n >= 2 THEN 2 ELSE 0)
        ELSE 0

\* The replace callback: a two-letter token whose letter is one of MdHhms is
\* shortened to its first letter; the result is the directive's code.
DirectiveCode(c, n) ==
    IF n = 2 /\ c \in {"M", "d", "H", "h", "m", "s"} THEN c
    ELSE IF c = "d" THEN (IF n = 1 THEN "d" ELSE IF n = 3 THEN "ddd" ELSE "dddd")
    ELSE IF c = "M" THEN (IF n = 1 THEN "M" ELSE IF n = 3 THEN "MMM" ELSE "MMMM")
    ELSE IF c = "y" THEN (IF n = 2 THEN "yy" ELSE "yyyy")
    ELSE IF c = "t" THEN "tt"
    ELSE c

Codes == {"d", "ddd", "dddd", "M", "MMM", "MMMM", "yy", "yyyy",
          "H", "h", "m", "s", "tt"}

\* Elements of the compiled regular expression.
\*   "ch"   the literal character c          "any"  the metacharacter .
\*   "d12"  (\d\d?)      "d4"  (\d\d\d\d)
\*   "MMMM" (January|...|December)   "MMM" (Jan|...|Dec)   "tt" (AM|PM)
Lit(c) == [k |-> IF c = "." THEN "any" ELSE "ch", c |-> c]

Group(k) == [k |-> k, c |-> ""]

GroupKinds == {"d12", "d4", "MMMM", "MMM", "tt"}

\* DIRECTIVE_PATTERNS[str]; the table has no entry for ddd and dddd, and
\* replace() writes the callback's undefined result as the text "undefined".
DIRECTIVE_PATTERNS(code) ==
    IF code \in {"d", "H", "h", "M", "m", "s", "yy"} THEN <<Group("d12")>>
    ELSE IF code = "yyyy" THEN <<Group("d4")>>
    ELSE IF code \in {"MMMM", "MMM", "tt"} THEN <<Group(code)>>
    ELSE <<Lit("u"), Lit("n"), Lit("d"), Lit("e"), Lit("f"),
           Lit("i"), Lit("n"), Lit("e"), Lit("d")>>

\* format.replace(scanner, callback): the pattern and the expected codes
RECURSIVE PatternFrom(_, _)
PatternFrom(f, i) ==
    IF i > Len(f) THEN <<>>
    ELSE LET n == TokenLenAt(f, i)
         IN  IF n = 0 THEN <<Lit(f[i])>> \o PatternFrom(f, i + 1)
             ELSE DIRECTIVE_PATTERNS(DirectiveCode(f[i], n))
                      \o PatternFrom(f, i + n)

RECURSIVE ExpectedFrom(_, _)
ExpectedFrom(f, i) ==
    IF i > Len(f) THEN <<>>
    ELSE LET n == TokenLenAt(f, i)
         IN  IF n = 0 THEN ExpectedFrom(f, i + 1)
             ELSE <<DirectiveCode(f[i], n)>> \o ExpectedFrom(f, i + n)

\* new RegExp("^" + pattern + "$")
CompileRegexp(format) == PatternFrom(Normalise(format), 1)

CompileExpected(format) == ExpectedFrom(Normalise(format), 1)

\* ------------------------------------------------------------------------
\* this.regexp.exec(input): backtracking match of the anchored pattern
\* ------------------------------------------------------------------------
NoMatch == [ok |-> FALSE, caps |-> <<>>]

Matched(cap, rest) == [ok |-> TRUE, caps |-> cap \o rest.caps]

AltNames(k) ==
    IF k = "MMMM" THEN culture_months
    ELSE IF k = "MMM" THEN culture_shortMonths
    ELSE <<culture_am, culture_pm>>

HasPrefixAt(t, j, w) ==
    /\ j + Len(w) - 1 <= Len(t)
    /\ \A x \in 1..Len(w) : t[j + x - 1] = w[x]

DigitsAt(t, j, n) ==
    /\ j + n - 1 <= Len(t)
    /\ \A x \in 0..(n - 1) : IsDigit(t[j + x])

\* MatchFrom(p, i, t, j): match elements i.. of p against t from position j
\* up to the end of t.  A greedy \d? is tried with two digits first, the
\* alternatives of a name group in the order of the locale list.
RECURSIVE MatchFrom(_, _, _, _)
RECURSIVE MatchAlt(_, _, _, _, _)
MatchFrom(p, i, t, j) ==
    IF i > Len(p)
    THEN (IF j > Len(t) THEN [ok |-> TRUE, caps |-> <<>>] ELSE NoMatch)
    ELSE LET e == p[i] IN
         IF e.k = "ch"
         THEN (IF j <= Len(t) /\ t[j] = e.c
               THEN MatchFrom(p, i + 1, t, j + 1) ELSE NoMatch)
         ELSE IF e.k = "any"
         THEN (IF j <= Len(t) /\ t[j] \notin {"\n", "\r"}
               THEN MatchFrom(p, i + 1, t, j + 1) ELSE NoMatch)
         ELSE IF e.k = "d4"
         THEN (IF DigitsAt(t, j, 4)
               THEN LET r == MatchFrom(p, i + 1, t, j + 4)
                    IN  IF r.ok THEN Matched(<<SubStr(t, j, j + 3)>>, r)
                        ELSE NoMatch
               ELSE NoMatch)
         ELSE IF e.k = "d12"
         THEN LET two == IF DigitsAt(t, j, 2)
                         THEN MatchFrom(p, i + 1, t, j + 2) ELSE NoMatch
              IN  IF two.ok THEN Matched(<<SubStr(t, j, j + 1)>>, two)
                  ELSE LET one == IF DigitsAt(t, j, 1)
                                  THEN MatchFrom(p, i + 1, t, j + 1)
                                  ELSE NoMatch
                       IN  IF one.ok THEN Matched(<<SubStr(t, j, j)>>, one)
                           ELSE NoMatch
         ELSE MatchAlt(p, i, t, j, 1)

MatchAlt(p, i, t, j, a) ==
    LET names == AltNames(p[i].k) IN
    IF a > Len(names) THEN NoMatch
    ELSE LET r == IF HasPrefixAt(t, j, names[a])
                  THEN MatchFrom(p, i + 1, t, j + Len(names[a]))
                  ELSE NoMatch
         IN  IF r.ok THEN Matched(<<names[a]>>, r)
             ELSE MatchAlt(p, i, t, j, a + 1)

\* (changed: the pattern is not anchored at its end, a match of a prefix of
\* the input is a match)
exec_Unanchored(regexp, input) ==
    LET ends == {n \in 0..Len(input) :
                    MatchFrom(regexp, 1, SubStr(input, 1, n), 1).ok}
    IN  IF ends = {} THEN NoMatch
        ELSE MatchFrom(regexp, 1,
                       SubStr(input, 1, CHOOSE n \in ends :
                                            \A x \in ends : x <= n), 1)

exec(regexp, input) == MatchFrom(regexp, 1, input, 1)

\* ------------------------------------------------------------------------
\* time.TimeParser.prototype.parse(input)
\* ------------------------------------------------------------------------

\* A property of the data object that was never assigned.  A capture is
\* never empty, so the empty text stands for undefined.
Undefined == <<>>

\* for (i = 1; i < matches.length; i++) data[this.expected[i - 1]] = matches[i]
RECURSIVE Collect(_, _, _, _)
Collect(expected, caps, i, data) ==
    IF i > Len(caps) THEN data
    ELSE Collect(expected, caps, i + 1,
                 [data EXCEPT ![expected[i]] = caps[i]])

\* _indexOf(item, list), 0-based, -1 when absent
_indexOf(item, list) ==
    IF \E i \in 1..Len(list) : list[i] = item
    THEN (CHOOSE i \in 1..Len(list) :
             list[i] = item /\ \A x \in 1..(i - 1) : list[x] # item) - 1
    ELSE 0 - 1

\* Default values for when more accurate values cannot be inferred
DefaultTime == <<1900, 1, 1, 0, 0, 0, 0, 1, 0 - 1>>

\* Each extraction step gives the value it stores and whether it throws.
Stored(v) == [thrown |-> FALSE, v |-> v]

Thrown(v) == [thrown |-> TRUE, v |-> v]

\* (changed: the window starts at 69)
ExtractYear_Window69(data) ==
    IF data["yyyy"] # Undefined THEN parseInt(data["yyyy"])
    ELSE IF data["yy"] # Undefined
         THEN LET year == parseInt(data["yy"])
              IN  IF JsLt(year, 69) THEN 2000 + year
                  ELSE IF JsLt(year, 100) THEN 1900 + year
                  ELSE year
         ELSE DefaultTime[1]

ExtractYear(data) ==
    IF data["yyyy"] # Undefined THEN parseInt(data["yyyy"])
    ELSE IF data["yy"] # Undefined
         THEN LET year == parseInt(data["yy"])
              IN  IF JsLt(year, 68) THEN 2000 + year
                  ELSE IF JsLt(year, 100) THEN 1900 + year
                  ELSE year
         ELSE DefaultTime[1]

ExtractMonth(data) ==
    IF data["M"] # Undefined
    THEN LET month == parseInt(data["M"])
         IN  IF JsLt(month, 1) \/ JsGt(month, 12) THEN Thrown(month)
             ELSE Stored(month)
    ELSE IF data["MMMM"] # Undefined
         THEN Stored(_indexOf(data["MMMM"], culture_months) + 1)
    ELSE IF data["MMM"] # Undefined
         THEN Stored(_indexOf(data["MMM"], culture_shortMonths) + 1)
    ELSE Stored(DefaultTime[2])

ExtractDay(data) ==
    IF data["d"] # Undefined
    THEN LET day == parseInt(data["d"])
         IN  IF JsLt(day, 1) \/ JsGt(day, 31) THEN Thrown(day)
             ELSE Stored(day)
    ELSE Stored(DefaultTime[3])

\* (changed: 12 is not turned into 0 before the meridiem is applied)
ExtractHour_NoMidnight(data) ==
    IF data["H"] # Undefined
    THEN LET hour == parseInt(data["H"])
         IN  IF JsGt(hour, 23) THEN Thrown(hour) ELSE Stored(hour)
    ELSE IF data["h"] # Undefined
         THEN LET hour == parseInt(data["h"])
              IN  IF JsLt(hour, 1) \/ JsGt(hour, 12) THEN Thrown(hour)
                  ELSE IF data["tt"] # Undefined /\ data["tt"] = culture_pm
                       THEN Stored(JsAdd(hour, 12))
                       ELSE Stored(hour)
    ELSE Stored(DefaultTime[4])

ExtractHour(data) ==
    IF data["H"] # Undefined
    THEN LET hour == parseInt(data["H"])
         IN  IF JsGt(hour, 23) THEN Thrown(hour) ELSE Stored(hour)
    ELSE IF data["h"] # Undefined
         THEN LET hour == parseInt(data["h"])
                  hour0 == IF JsEq(hour, 12) THEN 0 ELSE hour
              IN  IF JsLt(hour, 1) \/ JsGt(hour, 12) THEN Thrown(hour)
                  ELSE IF data["tt"] # Undefined /\ data["tt"] = culture_pm
                       THEN Stored(JsAdd(hour0, 12))
                       ELSE Stored(hour0)
    ELSE Stored(DefaultTime[4])

\* (changed: the bound of the minute is 60)
ExtractMinute_Upto60(data) ==
    IF data["m"] # Undefined
    THEN LET minute == parseInt(data["m"])
         IN  IF JsGt(minute, 60) THEN Thrown(minute) ELSE Stored(minute)
    ELSE Stored(DefaultTime[5])

ExtractMinute(data) ==
    IF data["m"] # Undefined
    THEN LET minute == parseInt(data["m"])
         IN  IF JsGt(minute, 59) THEN Thrown(minute) ELSE Stored(minute)
    ELSE Stored(DefaultTime[5])

ExtractSecond(data) ==
    IF data["s"] # Undefined
    THEN LET second == parseInt(data["s"])
         IN  IF JsGt(second, 59) THEN Thrown(second) ELSE Stored(second)
    ELSE Stored(DefaultTime[6])

\* (changed: every fourth year is a leap year)
IsLeap_EveryFourth(year) == JsEq(JsMod(year, 4), 0)

\* year % 4 == 0 && year % 100 != 0 || year % 400 == 0
\* (NaN % 100 != 0 is true in JavaScript, NaN % 4 == 0 is false)
IsLeap(year) ==
    \/ JsEq(JsMod(year, 4), 0) /\ ~JsEq(JsMod(year, 100), 0)
    \/ JsEq(JsMod(year, 400), 0)

\* The final "Validate day of month" condition
DayOutOfMonth(year, month, day) ==
    \/ /\ \/ JsEq(month, 4) \/ JsEq(month, 6)
          \/ JsEq(month, 9) \/ JsEq(month, 11)
       /\ JsGt(day, 30)
    \/ /\ JsEq(month, 2)
       /\ JsGt(day, IF IsLeap(year) THEN 29 ELSE 28)

\* What a call of parse gives: the returned array, or the kind of the
\* Error thrown.  "match" is the throw of line 144, the others are the
\* range throws, named after their messages.
Returned(time) == [ok |-> TRUE, err |-> "", time |-> time]

Threw(err) == [ok |-> FALSE, err |-> err, time |-> <<>>]

RangeErrors == {"month", "day", "hour", "minute", "second", "dayofmonth"}

parse(regexp, expected, input) ==
    LET matches == exec(regexp, input) IN
    IF ~matches.ok THEN Threw("match")
    ELSE
    LET data   == Collect(expected, matches.caps, 1,
                          [c \in Codes |-> Undefined])
        year   == ExtractYear(data)
        month  == ExtractMonth(data)
        day    == ExtractDay(data)
        hour   == ExtractHour(data)
        minute == ExtractMinute(data)
        second == ExtractSecond(data)
    IN  IF month.thrown THEN Threw("month")
        ELSE IF day.thrown THEN Threw("day")
        ELSE IF hour.thrown THEN Threw("hour")
        ELSE IF minute.thrown THEN Threw("minute")
        ELSE IF second.thrown THEN Threw("second")
        ELSE IF DayOutOfMonth(year, month.v, day.v) THEN Threw("dayofmonth")
        ELSE Returned(<<year, month.v, day.v, hour.v, minute.v, second.v,
                        DefaultTime[7], DefaultTime[8], DefaultTime[9]>>)

\* time.strptime(input, format)
strptime(input, format) ==
    parse(CompileRegexp(format), CompileExpected(format), input)

\* ------------------------------------------------------------------------
\* strftime(date, format) of strftime.js
\* ------------------------------------------------------------------------
Letters ==
    {"a","b","c","d","e","f","g","h","i","j","k","l","m",
     "n","o","p","q","r","s","t","u","v","w","x","y","z",
     "A","B","C","D","E","F","G","H","I","J","K","L","M",
     "N","O","P","Q","R","S","T","U","V","W","X","Y","Z"}

\* \w of the regular expressions
WordChars == Letters \cup DigitChars \cup {"_"}

\* "" + number, for number >= 0
RECURSIVE ToText(_)
ToText(n) ==
    IF n < 10 THEN <<Digits[n + 1]>>
    ELSE ToText(n \div 10) \o <<Digits[(n % 10) + 1]>>

\* pad(number, size): "0" is put in front until the text has size characters
RECURSIVE PadText(_, _)
PadText(padded, size) ==
    IF Len(padded) < size THEN PadText(<<"0">> \o padded, size) ELSE padded

pad(number, size) == PadText(ToText(number), size)

\* The length of the match of /%\w|%%|./g at position i; 0 where nothing
\* matches (a line terminator), which exec() skips.
DirectiveLenAt(f, i) ==
    IF f[i] = "%" /\ i + 1 <= Len(f) /\ f[i + 1] \in WordChars \cup {"%"}
    THEN 2
    ELSE IF f[i] \in {"\n", "\r"} THEN 0
    ELSE 1

\* The switch with "%m" reading getMonth() as it is, 0-based
FormatPart_ZeroBasedMonth(date, tok) ==
    IF tok = <<"%", "d">> THEN pad(date.Date, 2)
    ELSE IF tok = <<"%", "H">> THEN pad(date.Hours, 2)
    ELSE IF tok = <<"%", "M">> THEN pad(date.Minutes, 2)
    ELSE IF tok = <<"%", "m">> THEN pad(date.Month, 2)
    ELSE IF tok = <<"%", "S">> THEN pad(date.Seconds, 2)
    ELSE IF tok = <<"%", "Y">> THEN ToText(date.FullYear)
    ELSE tok

\* The switch on matches[0]; date holds what the getters of Date return
\* (getMonth() is 0-based).
FormatPart(date, tok) ==
    IF tok = <<"%", "d">> THEN pad(date.Date, 2)
    ELSE IF tok = <<"%", "H">> THEN pad(date.Hours, 2)
    ELSE IF tok = <<"%", "M">> THEN pad(date.Minutes, 2)
    ELSE IF tok = <<"%", "m">> THEN pad(date.Month + 1, 2)
    ELSE IF tok = <<"%", "S">> THEN pad(date.Seconds, 2)
    ELSE IF tok = <<"%", "Y">> THEN ToText(date.FullYear)
    ELSE tok

RECURSIVE strftimeFrom(_, _, _)
strftimeFrom(date, f, i) ==
    IF i > Len(f) THEN <<>>
    ELSE LET n == DirectiveLenAt(f, i)
         IN  IF n = 0 THEN strftimeFrom(date, f, i + 1)
             ELSE FormatPart(date, SubStr(f, i, i + n - 1))
                      \o strftimeFrom(date, f, i + n)

strftime(date, f) == strftimeFrom(date, f, 1)

\* ------------------------------------------------------------------------
\* Fields and widgets, as Form and BaseFormSet use them (fields.js and
\* widgets.js).  Texts are sequences of characters, as above.
\* ------------------------------------------------------------------------

\* data[name] when data has no property of that name; null; a checkbox's
\* false
Missing == <<"undefined">>

Null == <<"null">>

False == <<"false">>

\* The number an optional IntegerField cleans an empty value to (null)
NullNumber == 0 - 1000001

RequiredMessage == "This field is required."

WholeNumberMessage == "Enter a whole number."

\* Widget.valueFromData(data, files, name), v being data[name]
valueFromData(v) == IF v = Missing THEN Null ELSE v

\* CheckboxInput.valueFromData: a checkbox that was not submitted is false
CheckboxInput_valueFromData(v) == IF v = Missing THEN False ELSE v

RECURSIVE TrimLeft(_)
TrimLeft(t) ==
    IF t # <<>> /\ Head(t) \in WhiteSpace THEN TrimLeft(Tail(t)) ELSE t

RECURSIVE TrimRight(_)
TrimRight(t) ==
    IF t # <<>> /\ t[Len(t)] \in WhiteSpace
    THEN TrimRight(SubStr(t, 1, Len(t) - 1)) ELSE t

\* What a field's clean returns, or the message of the ValidationError it
\* throws
Cleaned(v) == [error |-> "", value |-> v]

\* The end of IntegerField.clean: body is the trimmed text without its sign
WholeNumber(negative, body) ==
    IF body # <<>> /\ \A i \in 1..Len(body) : IsDigit(body[i])
    THEN Cleaned(IF negative THEN 0 - DecValue(body, Len(body))
                 ELSE DecValue(body, Len(body)))
    ELSE [error |-> WholeNumberMessage, value |-> NullNumber]

Signed(t) ==
    WholeNumber(t # <<>> /\ Head(t) = "-",
                IF t # <<>> /\ Head(t) \in {"-", "+"} THEN Tail(t) ELSE t)

\* IntegerField.clean(value)
IntegerField_clean(value, required) ==
    IF value \in {Null, <<>>}
    THEN (IF required THEN [error |-> RequiredMessage, value |-> NullNumber]
          ELSE Cleaned(NullNumber))
    ELSE Signed(TrimRight(TrimLeft(value)))

\* CharField.clean(value)
CharField_clean(value, required) ==
    IF value \in {Null, <<>>}
    THEN (IF required THEN [error |-> RequiredMessage, value |-> <<>>]
          ELSE Cleaned(<<>>))
    ELSE Cleaned(value)

\* BooleanField.clean(value) of a field that is not required
BooleanField_clean(value) ==
    Cleaned(value \notin {False, Null, <<>>, <<"0">>,
                          <<"F", "a", "l", "s", "e">>})

\* Field._hasChanged(initial, data) of a text widget: the texts differ
_hasChanged(initialValue, dataValue) ==
    (IF initialValue = Null THEN <<>> ELSE initialValue)
        # (IF dataValue = Null THEN <<>> ELSE dataValue)

\* _hasChanged of a checkbox: the truth values differ
CheckboxInput_hasChanged(initialValue, dataValue) ==
    (initialValue \notin {False, Null, <<>>})
        # (dataValue \notin {False, Null, <<>>})

\* new ErrorObject(), and isPopulated() of an ErrorObject: one entry per
\* field that has a message
ErrorObject == [choice |-> "", votes |-> "", ORDER |-> "", DELETE |-> ""]

isPopulated(errors) == \E n \in DOMAIN errors : errors[n] # ""

\* ------------------------------------------------------------------------
\* Form (forms.js), for the form of the formset tests: choice is a
\* CharField, votes an IntegerField; a formset that can delete adds the
\* IntegerField ORDER if it can order and the BooleanField DELETE if it can
\* delete.  The submitted data holds, under the formset's prefix, the three
\* management values and one row of values per form index.
\* ------------------------------------------------------------------------
ORDERING_FIELD_NAME == "ORDER"

DELETION_FIELD_NAME == "DELETE"

\* this.data[this.addPrefix(name)] of the form whose prefix ends in index i
FormData(data, i, name) ==
    IF i + 1 <= Len(data.rows) THEN data.rows[i + 1][name] ELSE Missing

\* An initial data object that sets no field, and the cleanedData object {}
NoInitial == [names |-> {}, choice |-> <<>>, votes |-> 0]

EmptyCleanedData ==
    [names |-> {}, choice |-> <<>>, votes |-> NullNumber,
     ORDER |-> NullNumber, DELETE |-> FALSE]

\* new Form(kwargs) of the Choice form.  _errors and _changedData start as
\* null, cleanedData does not exist yet.  orderInitial is the initial of
\* the ORDER field (null where the form has none), cleanThrows says that
\* the form's constructor overrides clean() by a function that throws an
\* Error which is no ValidationError, and fullCleans counts the calls of
\* fullClean on the form.
Form(isBound, index, initial, emptyPermitted) ==
    [isBound |-> isBound, index |-> index, initial |-> initial,
     emptyPermitted |-> emptyPermitted,
     fields |-> <<"choice", "votes">>,
     orderInitial |-> NullNumber,
     cleanThrows |-> FALSE,
     fullCleans |-> 0,
     errorsNull |-> TRUE, _errors |-> ErrorObject,
     hasCleanedData |-> FALSE, cleanedData |-> EmptyCleanedData,
     changedNull |-> TRUE, _changedData |-> <<>>]

HasField(form, name) == \E k \in 1..Len(form.fields) : form.fields[k] = name

\* this.initial[name] if it is defined, else field.initial (null); numbers
\* are compared as their text
InitialValue(form, name) ==
    IF name = ORDERING_FIELD_NAME
    THEN (IF form.orderInitial = NullNumber THEN Null
          ELSE ToText(form.orderInitial))
    ELSE IF name \notin form.initial.names THEN Null
    ELSE IF name = "choice" THEN form.initial.choice
    ELSE ToText(form.initial.votes)

\* form._rawValue(fieldname)
_rawValue(form, data, name) ==
    IF name = DELETION_FIELD_NAME
    THEN CheckboxInput_valueFromData(
             IF form.isBound THEN FormData(data, form.index, name)
             ELSE Missing)
    ELSE valueFromData(
             IF form.isBound THEN FormData(data, form.index, name)
             ELSE Missing)

\* The getter changedData: computed once, then kept in _changedData
changedData(form, data) ==
    IF ~form.changedNull THEN form
    ELSE [form EXCEPT
             !.changedNull = FALSE,
             !._changedData =
                 SelectSeq(form.fields,
                     LAMBDA n :
                         IF n = DELETION_FIELD_NAME
                         THEN CheckboxInput_hasChanged(Null,
                                  _rawValue(form, data, n))
                         ELSE _hasChanged(InitialValue(form, n),
                                  _rawValue(form, data, n)))]

\* form.hasChanged(), read off the form changedData() returns
hasChanged(form) == Len(form._changedData) # 0

\* The end of _cleanFields: what the fields' clean gave is stored under
\* the names of the fields the form has; a ValidationError leaves its
\* message in _errors and no entry in cleanedData
StoreCleaned(form, ch, vo, or, de) ==
    [form EXCEPT
        !._errors =
            [choice |-> ch.error, votes |-> vo.error,
             ORDER  |-> IF HasField(form, ORDERING_FIELD_NAME)
                        THEN or.error ELSE "",
             DELETE |-> ""],
        !.cleanedData =
            [names  |-> {n \in {"choice", "votes", ORDERING_FIELD_NAME,
                                DELETION_FIELD_NAME} :
                            /\ HasField(form, n)
                            /\ (n = "choice" => ch.error = "")
                            /\ (n = "votes" => vo.error = "")
                            /\ (n = ORDERING_FIELD_NAME => or.error = "")},
             choice |-> ch.value,
             votes  |-> vo.value,
             ORDER  |-> IF HasField(form, ORDERING_FIELD_NAME)
                        THEN or.value ELSE NullNumber,
             DELETE |-> HasField(form, DELETION_FIELD_NAME) /\ de.value]]

\* form._cleanFields(): every field is cleaned, in the order of fields
_cleanFields(form, data) ==
    StoreCleaned(form,
        CharField_clean(_rawValue(form, data, "choice"), TRUE),
        IntegerField_clean(_rawValue(form, data, "votes"), TRUE),
        IntegerField_clean(_rawValue(form, data, ORDERING_FIELD_NAME), FALSE),
        BooleanField_clean(_rawValue(form, data, DELETION_FIELD_NAME)))

\* form.clean(), the hook a form may override: it returns cleanedData
clean(form) == form.cleanedData

\* form._cleanForm(): an Error of clean() that is no ValidationError is
\* thrown on, and nothing is assigned
_cleanForm(form) ==
    IF form.cleanThrows THEN form
    ELSE [form EXCEPT !.cleanedData = clean(form)]

\* The first lines of fullClean: _errors is a new ErrorObject and, for a
\* bound form, cleanedData is {}
StartClean(form) ==
    IF ~form.isBound
    THEN [form EXCEPT !.fullCleans = @ + 1,
                      !.errorsNull = FALSE, !._errors = ErrorObject]
    ELSE [form EXCEPT !.fullCleans = @ + 1,
                      !.errorsNull = FALSE, !._errors = ErrorObject,
                      !.hasCleanedData = TRUE,
                      !.cleanedData = EmptyCleanedData]

\* The fullClean that keeps cleanedData whatever the errors
DeleteIfErrors_Keeps(form) == form

\* The last lines of fullClean, which are not reached when _cleanForm has
\* thrown: delete this.cleanedData if there are errors
DeleteIfErrors(form) ==
    IF form.cleanThrows THEN form
    ELSE IF isPopulated(form._errors)
    THEN [form EXCEPT !.hasCleanedData = FALSE,
                      !.cleanedData = EmptyCleanedData]
    ELSE form

\* fullClean from its test of hasChanged on, which has filled _changedData
CleanIfChanged(form, data) ==
    IF ~hasChanged(form) THEN form
    ELSE DeleteIfErrors(_cleanForm(_cleanFields(form, data)))

\* The fullClean whose empty-form short cut is taken whenever the form is
\* allowed to be empty, changed or not
fullClean_SkipsChangedForms(form, data) ==
    IF ~form.isBound THEN StartClean(form)
    ELSE IF form.emptyPermitted THEN changedData(StartClean(form), data)
    ELSE DeleteIfErrors(_cleanForm(_cleanFields(StartClean(form), data)))

\* form.fullClean()
fullClean(form, data) ==
    IF ~form.isBound THEN StartClean(form)
    ELSE IF form.emptyPermitted
    THEN CleanIfChanged(changedData(StartClean(form), data), data)
    ELSE DeleteIfErrors(_cleanForm(_cleanFields(StartClean(form), data)))

\* form.fullClean() ends by throwing the Error of clean()
fullCleanThrows(form, data) ==
    /\ form.isBound
    /\ form.cleanThrows
    /\ (form.emptyPermitted => hasChanged(changedData(form, data)))

\* The getter errors that calls fullClean at every read
Form_errors_Recleans(form, data) == fullClean(form, data)

\* The getter errors of a form: the form after the read; the value read is
\* its _errors
Form_errors(form, data) ==
    IF form.errorsNull THEN fullClean(form, data) ELSE form

\* return !this.errors.isPopulated(), form being the form after the read
NoErrors(form) == [form |-> form, value |-> ~isPopulated(form._errors)]

\* isValid() without the test of isBound
Form_isValid_Unguarded(form, data) == NoErrors(Form_errors(form, data))

\* form.isValid(): the form after the call, and the value returned
Form_isValid(form, data) ==
    IF ~form.isBound THEN [form |-> form, value |-> FALSE]
    ELSE NoErrors(Form_errors(form, data))

\* ------------------------------------------------------------------------
\* ManagementForm and BaseFormSet (formsets.js)
\* ------------------------------------------------------------------------
TOTAL_FORM_COUNT == "TOTAL_FORMS"

INITIAL_FORM_COUNT == "INITIAL_FORMS"

MAX_NUM_FORM_COUNT == "MAX_NUM_FORMS"

\* cleanedData[name] of the management form, and whether the field refused
\* the value: its three fields are IntegerFields, all required
ManagementValue(data, name) ==
    IntegerField_clean(valueFromData(data[name]), TRUE).value

ManagementError(data, name) ==
    IntegerField_clean(valueFromData(data[name]), TRUE).error # ""

\* new ManagementForm({data: this.data, ...}).isValid(): the form is bound
\* if data is not null, and valid if no field refuses its value
ManagementForm(hasData, data) ==
    /\ hasData
    /\ ~ManagementError(data, TOTAL_FORM_COUNT)
    /\ ~ManagementError(data, INITIAL_FORM_COUNT)
    /\ ~ManagementError(data, MAX_NUM_FORM_COUNT)

\* The getter managementForm throws the ValidationError
managementFormThrows(fs) ==
    (fs.hasData \/ fs.hasFiles) /\ ~ManagementForm(fs.hasData, fs.data)

\* The initialFormCount that does not cap the initial data at maxNum
initialFormCount_Uncapped(fs) ==
    IF fs.hasData \/ fs.hasFiles
    THEN ManagementValue(fs.data, INITIAL_FORM_COUNT)
    ELSE Len(fs.initial)

\* formset.initialFormCount(), where managementForm does not throw
initialFormCount(fs) ==
    IF fs.hasData \/ fs.hasFiles
    THEN ManagementValue(fs.data, INITIAL_FORM_COUNT)
    ELSE IF Len(fs.initial) > fs.maxNum /\ fs.maxNum > 0
    THEN fs.maxNum ELSE Len(fs.initial)

\* The end of totalFormCount for a formset without data and files
CapTotal(totalForms, maxNum) ==
    IF totalForms > maxNum /\ maxNum > 0 THEN maxNum ELSE totalForms

\* formset.totalFormCount(), where managementForm does not throw
totalFormCount(fs) ==
    IF fs.hasData \/ fs.hasFiles
    THEN ManagementValue(fs.data, TOTAL_FORM_COUNT)
    ELSE CapTotal(initialFormCount(fs) + fs.extra, fs.maxNum)

\* The first half of addFields: the ORDER field, whose initial is the
\* form's index + 1 for the initial forms only
addOrderField(fs, form) ==
    IF fs.canOrder
    THEN [form EXCEPT !.fields = @ \o <<ORDERING_FIELD_NAME>>,
                      !.orderInitial = IF form.index < initialFormCount(fs)
                                       THEN form.index + 1 ELSE NullNumber]
    ELSE form

\* The second half of addFields: the DELETE field
addDeleteField(fs, form) ==
    IF fs.canDelete
    THEN [form EXCEPT !.fields = @ \o <<DELETION_FIELD_NAME>>]
    ELSE form

\* formset.addFields(form, index)
addFields(fs, form) == addDeleteField(fs, addOrderField(fs, form))

\* formset._constructForm(i)
_constructForm(fs, i) ==
    addFields(fs,
        Form(fs.hasData \/ fs.hasFiles, i,
             IF Len(fs.initial) > 0 /\ i + 1 <= Len(fs.initial)
             THEN fs.initial[i + 1] ELSE NoInitial,
             i >= initialFormCount(fs)))

\* formset._constructForms()
_constructForms(fs) ==
    [fs EXCEPT !.forms = [k \in 1..totalFormCount(fs) |->
                             _constructForm(fs, k - 1)]]

\* The object that formsetConstructor and BaseFormSet have set up when
\* _constructForms is called, forms being the [] of its first line.  The
\* options other than the named ones go to the prototype: cleanRaises says
\* that they hold a clean method, which throws a ValidationError.
\* fullCleans counts the calls of fullClean on the formset.
formsetConstructor(kwargs, options) ==
    [isBound  |-> kwargs.hasData \/ kwargs.hasFiles,
     hasData  |-> kwargs.hasData,
     hasFiles |-> kwargs.hasFiles,
     data     |-> kwargs.data,
     initial  |-> kwargs.initial,
     extra    |-> options.extra,
     maxNum   |-> options.maxNum,
     canOrder |-> options.canOrder,
     canDelete |-> options.canDelete,
     cleanRaises |-> options.cleanRaises,
     forms    |-> <<>>,
     fullCleans |-> 0,
     errorsNull |-> TRUE, _errors |-> <<>>,
     nonFormErrorsNull |-> TRUE, _nonFormErrors |-> <<>>,
     deletedUndefined |-> TRUE, _deletedFormIndexes |-> <<>>,
     orderingUndefined |-> TRUE, _ordering |-> <<>>]

\* new (formsetFactory(Choice, options))(kwargs), where managementForm does
\* not throw
BaseFormSet(kwargs, options) ==
    _constructForms(formsetConstructor(kwargs, options))

\* formset.nonFormErrors().isPopulated()
nonFormErrorsPopulated(fs) ==
    ~fs.nonFormErrorsNull /\ Len(fs._nonFormErrors) > 0

\* The loop of fullClean, forms being the forms after their errors were read
PushErrors(fs, forms) ==
    [fs EXCEPT !.errorsNull = FALSE,
               !.forms = forms,
               !._errors = [k \in 1..Len(forms) |-> forms[k]._errors]]

\* The message of the ValidationError that a clean method given to the
\* factory throws
CleanMessage == "Formset is not clean."

\* The end of fullClean: this.clean() is called, the empty hook unless the
\* factory was given another, and a ValidationError it throws is caught
\* and its messages kept
TryClean(fs) ==
    IF fs.cleanRaises
    THEN [fs EXCEPT !.nonFormErrorsNull = FALSE,
                    !._nonFormErrors = <<CleanMessage>>]
    ELSE fs

\* formset.fullClean(): the errors of every form are read, which cleans the
\* forms not yet cleaned, then clean() is called
BaseFormSet_fullClean(fs) ==
    IF ~fs.isBound
    THEN [fs EXCEPT !.fullCleans = @ + 1,
                    !.errorsNull = FALSE, !._errors = <<>>]
    ELSE TryClean(PushErrors([fs EXCEPT !.fullCleans = @ + 1],
                             [k \in 1..totalFormCount(fs) |->
                                 Form_errors(fs.forms[k], fs.data)]))

\* The getter errors of a formset: the formset after the read
BaseFormSet_errors(fs) ==
    IF fs.errorsNull THEN BaseFormSet_fullClean(fs) ELSE fs

\* field.clean(form._rawValue("DELETE")) of isValid
shouldDelete(fs, form) ==
    fs.canDelete
        /\ BooleanField_clean(_rawValue(form, fs.data,
                                        DELETION_FIELD_NAME)).value

\* The return of isValid, fs being the formset after the loop and kept the
\* forms the loop did not pass over
FormsValid(fs, kept) ==
    [fs    |-> fs,
     value |-> /\ \A k \in kept : ~isPopulated(fs._errors[k])
               /\ ~nonFormErrorsPopulated(fs)]

\* The loop of isValid: this.errors is read for the first form that is not
\* to be deleted, which cleans the whole formset
ReadErrors(fs, kept) ==
    FormsValid(IF kept = {} THEN fs ELSE BaseFormSet_errors(fs), kept)

\* formset.isValid(): the formset after the call and the value returned
BaseFormSet_isValid(fs) ==
    IF ~fs.isBound THEN [fs |-> fs, value |-> FALSE]
    ELSE ReadErrors(fs, {k \in 1..totalFormCount(fs) :
                            ~shouldDelete(fs, fs.forms[k])})

\* The loop of the getter deletedForms from form index i on, pushed being
\* the indexes put into _deletedFormIndexes so far.  Reading a property of
\* form.cleanedData where a form has no cleanedData is a TypeError, which
\* leaves _deletedFormIndexes as far as it was built.
RECURSIVE DeletedFormIndexes(_, _, _)
RECURSIVE DeletedFormIndex(_, _, _, _)
DeletedFormIndexes(fs, i, pushed) ==
    IF i >= totalFormCount(fs)
    THEN [fs |-> [fs EXCEPT !.deletedUndefined = FALSE,
                            !._deletedFormIndexes = pushed],
          thrown |-> ""]
    ELSE IF i >= initialFormCount(fs)
    THEN DeletedFormIndex(
             [fs EXCEPT !.forms[i + 1] = changedData(@, fs.data)],
             i, pushed, TRUE)
    ELSE DeletedFormIndex(fs, i, pushed, FALSE)

\* One turn of the loop, hasChanged() of an extra form having been called
DeletedFormIndex(fs, i, pushed, extra) ==
    IF extra /\ ~hasChanged(fs.forms[i + 1])
    THEN DeletedFormIndexes(fs, i + 1, pushed)
    ELSE IF ~fs.forms[i + 1].hasCleanedData
    THEN [fs |-> [fs EXCEPT !.deletedUndefined = FALSE,
                            !._deletedFormIndexes = pushed],
          thrown |-> "TypeError"]
    ELSE DeletedFormIndexes(fs, i + 1,
             IF /\ DELETION_FIELD_NAME \in fs.forms[i + 1].cleanedData.names
                /\ fs.forms[i + 1].cleanedData.DELETE
             THEN Append(pushed, i) ELSE pushed)

\* The end of the getter: the forms of the indexes are returned
IndexedForms(indexed) ==
    [fs |-> indexed.fs, thrown |-> indexed.thrown,
     value |-> IF indexed.thrown = ""
               THEN indexed.fs._deletedFormIndexes ELSE <<>>]

\* The getter from its test on, valid being what isValid() gave
DeletedOrThrow(valid) ==
    IF ~valid.value \/ ~valid.fs.canDelete
    THEN [fs |-> valid.fs, thrown |-> "Error", value |-> <<>>]
    ELSE IF valid.fs.deletedUndefined
    THEN IndexedForms(DeletedFormIndexes(valid.fs, 0, <<>>))
    ELSE IndexedForms([fs |-> valid.fs, thrown |-> ""])

\* The getter deletedForms: the formset after the read, what was thrown,
\* and the indexes of the forms returned
deletedForms(fs) == DeletedOrThrow(BaseFormSet_isValid(fs))

\* The comparison function given to sort: null is sorted below anything
\* else, two nulls by form index.  An entry is <<form index, ORDER>>.
Compare(x, y) ==
    IF x[2] = NullNumber /\ y[2] = NullNumber THEN x[1] - y[1]
    ELSE IF x[2] = NullNumber THEN 1
    ELSE IF y[2] = NullNumber THEN 0 - 1
    ELSE x[2] - y[2]

\* What this._ordering.sort(...) may leave: the entries in an order the
\* comparison agrees with; which of them, where two entries compare equal,
\* is up to the engine's sort
Sorted(ordering) ==
    {[k \in 1..Len(ordering) |-> ordering[p[k]]] :
        p \in {q \in [1..Len(ordering) -> 1..Len(ordering)] :
                  /\ \A a, b \in 1..Len(ordering) : a # b => q[a] # q[b]
                  /\ \A a, b \in 1..Len(ordering) :
                         a < b => Compare(ordering[q[a]], ordering[q[b]]) <= 0}}

\* The loop of the getter orderedForms from form index i on, pushed being
\* the entries put into _ordering so far.  Reading a property of
\* form.cleanedData where a form has no cleanedData is a TypeError, which
\* leaves _ordering as far as it was built, and unsorted.
RECURSIVE Ordering(_, _, _)
RECURSIVE OrderingEntry(_, _, _, _)
Ordering(fs, i, pushed) ==
    IF i >= totalFormCount(fs)
    THEN [fs |-> [fs EXCEPT !.orderingUndefined = FALSE,
                            !._ordering = pushed],
          thrown |-> ""]
    ELSE IF i >= initialFormCount(fs)
    THEN OrderingEntry(
             [fs EXCEPT !.forms[i + 1] = changedData(@, fs.data)],
             i, pushed, TRUE)
    ELSE OrderingEntry(fs, i, pushed, FALSE)

\* One turn of the loop, hasChanged() of an extra form having been called
OrderingEntry(fs, i, pushed, extra) ==
    IF extra /\ ~hasChanged(fs.forms[i + 1])
    THEN Ordering(fs, i + 1, pushed)
    ELSE IF ~fs.forms[i + 1].hasCleanedData
    THEN [fs |-> [fs EXCEPT !.orderingUndefined = FALSE,
                            !._ordering = pushed],
          thrown |-> "TypeError"]
    ELSE IF /\ fs.canDelete
            /\ DELETION_FIELD_NAME \in fs.forms[i + 1].cleanedData.names
            /\ fs.forms[i + 1].cleanedData.DELETE
    THEN Ordering(fs, i + 1, pushed)
    ELSE Ordering(fs, i + 1,
                  Append(pushed, <<i, fs.forms[i + 1].cleanedData.ORDER>>))

\* The sort that follows the loop, unless the loop threw
SortOrThrow(looped) ==
    [fs |-> looped.fs, thrown |-> looped.thrown,
     sorts |-> IF looped.thrown = "" THEN Sorted(looped.fs._ordering)
               ELSE {looped.fs._ordering}]

\* The getter from its test on, valid being what isValid() gave
OrderedOrThrow(valid) ==
    IF ~valid.value \/ ~valid.fs.canOrder
    THEN [fs |-> valid.fs, thrown |-> "Error",
          sorts |-> {valid.fs._ordering}]
    ELSE IF ~valid.fs.orderingUndefined
    THEN [fs |-> valid.fs, thrown |-> "", sorts |-> {valid.fs._ordering}]
    ELSE SortOrThrow(Ordering(valid.fs, 0, <<>>))

\* The getter orderedForms: the formset after the loop, what was thrown,
\* and the values _ordering may have when the getter ends
orderedForms(fs) == OrderedOrThrow(BaseFormSet_isValid(fs))

\* formset.asTable(): the management form is rendered, then every form,
\* and rendering a form reads its errors
asTable(fs) ==
    [fs EXCEPT !.forms = [k \in 1..Len(fs.forms) |->
                             Form_errors(fs.forms[k], fs.data)]]

\* ------------------------------------------------------------------------
\* State
\* ------------------------------------------------------------------------
VARIABLES
    constructed,  \* a TimeParser object exists
    format,       \* this.format
    regexp,       \* this.regexp
    expected,     \* this.expected
    input,        \* the argument of the last parse call
    result,       \* what the last parse call returned or threw
    ncalls,       \* how many times parse was called on the parser
    fdate,        \* the date of the last strftime call
    fformat,      \* the format of the last strftime call
    formatted,    \* what the last strftime call returned
    built,        \* a formset object exists
    formset,      \* the formset, with its forms
    outcome,      \* what the last operation on the formset or form gave
    made,         \* a form object exists that is in no formset
    theForm       \* that form, with the data it was given

vars == <<constructed, format, regexp, expected, input, result, ncalls,
          fdate, fformat, formatted, built, formset, outcome, made, theForm>>

parserVars == <<constructed, format, regexp, expected, input, result, ncalls>>

formatterVars == <<fdate, fformat, formatted>>

formVars == <<built, formset, outcome, made, theForm>>

choiceVars == <<made, theForm>>

\* The submitted data of a formset that was given none, and the formset
\* variable while no formset exists
NoData ==
    [TOTAL_FORMS |-> Missing, INITIAL_FORMS |-> Missing,
     MAX_NUM_FORMS |-> Missing, rows |-> <<>>]

NoFormSet ==
    [isBound |-> FALSE, hasData |-> FALSE, hasFiles |-> FALSE,
     data |-> NoData, initial |-> <<>>, extra |-> 0, maxNum |-> 0,
     canOrder |-> FALSE, canDelete |-> FALSE, cleanRaises |-> FALSE,
     forms |-> <<>>, fullCleans |-> 0,
     errorsNull |-> TRUE, _errors |-> <<>>,
     nonFormErrorsNull |-> TRUE, _nonFormErrors |-> <<>>,
     deletedUndefined |-> TRUE, _deletedFormIndexes |-> <<>>,
     orderingUndefined |-> TRUE, _ordering |-> <<>>]

Outcome(op, thrown, value, indexes) ==
    [op |-> op, thrown |-> thrown, value |-> value, indexes |-> indexes]

NoOutcome == Outcome("none", "", FALSE, <<>>)

\* The form variable while no form exists
NoForm == [data |-> NoData] @@ Form(FALSE, 0, NoInitial, FALSE)

NoCall == [ok |-> FALSE, err |-> "nocall", time |-> <<>>]

NoDate == [FullYear |-> 0, Month |-> 0, Date |-> 0,
           Hours |-> 0, Minutes |-> 0, Seconds |-> 0]

NotFormatted == <<"\n">>

Init ==
    /\ constructed = FALSE
    /\ format = <<>>
    /\ regexp = <<>>
    /\ expected = <<>>
    /\ input = <<>>
    /\ result = NoCall
    /\ ncalls = 0
    /\ fdate = NoDate
    /\ fformat = <<>>
    /\ formatted = NotFormatted
    /\ built = FALSE
    /\ formset = NoFormSet
    /\ outcome = NoOutcome
    /\ made = FALSE
    /\ theForm = NoForm

\* ------------------------------------------------------------------------
\* Operations
\* ------------------------------------------------------------------------

\* new time.TimeParser(f)
TimeParser(f) ==
    /\ constructed' = TRUE
    /\ format' = f
    /\ regexp' = CompileRegexp(f)
    /\ expected' = CompileExpected(f)
    /\ input' = <<>>
    /\ result' = NoCall
    /\ ncalls' = 0
    /\ UNCHANGED <<formatterVars, formVars>>

\* parse(t) that takes the expected directives off this.expected as it
\* stores the captures
Parse_Consuming(t) ==
    /\ constructed
    /\ input' = t
    /\ result' = parse(regexp, expected, t)
    /\ ncalls' = ncalls + 1
    /\ expected' = IF result'.ok THEN <<>> ELSE expected
    /\ UNCHANGED <<constructed, format, regexp>>
    /\ UNCHANGED <<formatterVars, formVars>>

\* parser.parse(t) on the parser that exists
Parse(t) ==
    /\ constructed
    /\ input' = t
    /\ result' = parse(regexp, expected, t)
    /\ ncalls' = ncalls + 1
    /\ UNCHANGED <<constructed, format, regexp, expected>>
    /\ UNCHANGED <<formatterVars, formVars>>

\* time.strptime(t, f): a new parser is built and parses t
Strptime(t, f) ==
    /\ constructed' = TRUE
    /\ format' = f
    /\ regexp' = CompileRegexp(f)
    /\ expected' = CompileExpected(f)
    /\ input' = t
    /\ result' = parse(CompileRegexp(f), CompileExpected(f), t)
    /\ ncalls' = 1
    /\ UNCHANGED <<formatterVars, formVars>>

\* strftime(d, f)
Strftime(d, f) ==
    /\ fdate' = d
    /\ fformat' = f
    /\ formatted' = strftime(d, f)
    /\ UNCHANGED <<parserVars, formVars>>

\* formsetFactory(Choice, options) and new ChoiceFormSet(kwargs).  When the
\* management form is refused, totalFormCount throws out of _constructForms
\* and of the constructor: the caller gets no formset, and formset shows
\* the object as the throw left it.
FormSet(kwargs, options) ==
    /\ IF managementFormThrows(formsetConstructor(kwargs, options))
       THEN /\ built' = FALSE
            /\ formset' = formsetConstructor(kwargs, options)
            /\ outcome' = Outcome("new", "ValidationError", FALSE, <<>>)
       ELSE /\ built' = TRUE
            /\ formset' = BaseFormSet(kwargs, options)
            /\ outcome' = Outcome("new", "", FALSE, <<>>)
    /\ UNCHANGED <<parserVars, formatterVars, choiceVars>>

\* The caller of isValid() gets r.value, and the formset is left as r.fs
IsValidReturns(r) ==
    /\ formset' = r.fs
    /\ outcome' = Outcome("isValid", "", r.value, <<>>)
    /\ UNCHANGED <<built, parserVars, formatterVars, choiceVars>>

\* formset.isValid()
IsValid ==
    /\ built
    /\ IsValidReturns(BaseFormSet_isValid(formset))

\* formset.errors
Errors ==
    /\ built
    /\ formset' = BaseFormSet_errors(formset)
    /\ outcome' = Outcome("errors", "", FALSE, <<>>)
    /\ UNCHANGED <<built, parserVars, formatterVars, choiceVars>>

\* The reader of deletedForms gets the forms of r.value or catches r.thrown
DeletedFormsReturns(r) ==
    /\ formset' = r.fs
    /\ outcome' = Outcome("deletedForms", r.thrown, FALSE, r.value)
    /\ UNCHANGED <<built, parserVars, formatterVars, choiceVars>>

\* formset.deletedForms
DeletedForms ==
    /\ built
    /\ DeletedFormsReturns(deletedForms(formset))

\* The reader of orderedForms gets the forms of the indexes of _ordering,
\* sorted, or catches r.thrown
OrderedFormsReturns(r) ==
    /\ \E ordering \in r.sorts :
           /\ formset' = [r.fs EXCEPT !._ordering = ordering]
           /\ outcome' = Outcome("orderedForms", r.thrown, FALSE,
                                 IF r.thrown = ""
                                 THEN [k \in 1..Len(ordering) |->
                                          ordering[k][1]]
                                 ELSE <<>>)
    /\ UNCHANGED <<built, parserVars, formatterVars, choiceVars>>

\* formset.orderedForms
OrderedForms ==
    /\ built
    /\ OrderedFormsReturns(orderedForms(formset))

\* "" + formset
AsTable ==
    /\ built
    /\ formset' = asTable(formset)
    /\ outcome' = Outcome("asTable", "", FALSE, <<>>)
    /\ UNCHANGED <<built, parserVars, formatterVars, choiceVars>>

\* The caller of forms[i].isValid() gets r.value, the form is left as r.form
FormIsValidReturns(i, r) ==
    /\ formset' = [formset EXCEPT !.forms[i + 1] = r.form]
    /\ outcome' = Outcome("form.isValid", "", r.value, <<i>>)
    /\ UNCHANGED <<built, parserVars, formatterVars, choiceVars>>

\* formset.forms[i].isValid()
FormIsValid(i) ==
    /\ built
    /\ i + 1 <= Len(formset.forms)
    /\ FormIsValidReturns(i, Form_isValid(formset.forms[i + 1], formset.data))

\* new Choice(kwargs), Choice being the form of two fields, or a form that
\* extends it by a clean() which throws an Error that is no
\* ValidationError.  The form has no prefix: its values are the first row
\* of the data.
Choice(kwargs, cleanThrows) ==
    /\ made' = TRUE
    /\ theForm' = [data |-> kwargs.data]
                      @@ [Form(kwargs.hasData, 0, NoInitial,
                               kwargs.emptyPermitted)
                             EXCEPT !.cleanThrows = cleanThrows]
    /\ outcome' = Outcome("new Choice", "", FALSE, <<>>)
    /\ UNCHANGED <<built, formset, parserVars, formatterVars>>

\* form.errors of that form: the read throws what fullClean throws
ChoiceErrors ==
    /\ made
    /\ theForm' = Form_errors(theForm, theForm.data)
    /\ outcome' = Outcome("choice.errors",
                          IF theForm.errorsNull
                                 /\ fullCleanThrows(theForm, theForm.data)
                          THEN "Error" ELSE "",
                          FALSE, <<>>)
    /\ UNCHANGED <<made, built, formset, parserVars, formatterVars>>

\* The caller of isValid() gets r.value, unless the read of errors threw
ChoiceIsValidReturns(r, thrown) ==
    /\ theForm' = r.form
    /\ outcome' = Outcome("choice.isValid", thrown,
                          thrown = "" /\ r.value, <<>>)
    /\ UNCHANGED <<made, built, formset, parserVars, formatterVars>>

\* form.isValid() of that form
ChoiceIsValid ==
    /\ made
    /\ ChoiceIsValidReturns(
           Form_isValid(theForm, theForm.data),
           IF theForm.errorsNull /\ fullCleanThrows(theForm, theForm.data)
           THEN "Error" ELSE "")

\* ------------------------------------------------------------------------
\* Texts the specifications draw formats and inputs from
\* ------------------------------------------------------------------------
Dash == <<"-">>

Colon == <<":">>

Space == <<" ">>

Tok_yyyy == <<"y", "y", "y", "y">>

Tok_yy == <<"y", "y">>

Tok_MM == <<"M", "M">>

Tok_M == <<"M">>

Tok_dd == <<"d", "d">>

Tok_d == <<"d">>

\* A number written with or without a leading zero
Num(n, padded) == IF padded THEN pad(n, 2) ELSE ToText(n)

StartsWith(t, w) == HasPrefixAt(t, 1, w)

\* ------------------------------------------------------------------------
\* Specification SpecDate: year-month-day formats and texts
\* ------------------------------------------------------------------------
Years == {1900, 2000, 2004, 2006, 2200}

F_YMD == Tok_yyyy \o Dash \o Tok_MM \o Dash \o Tok_dd

F_YMD1 == Tok_yyyy \o Dash \o Tok_M \o Dash \o Tok_d

DateFormats == {F_YMD, F_YMD1}

YMDText(y, m, zm, d, zd) ==
    ToText(y) \o Dash \o Num(m, zm) \o Dash \o Num(d, zd)

DateInputs ==
    {YMDText(y, m, zm, d, zd) :
        y \in Years, m \in 0..MaxMonthIn, d \in 0..MaxDayIn,
        zm \in BOOLEAN, zd \in BOOLEAN}

\* Every specification follows one parser object through its construction
\* and its first parse call, or one strptime call: the outcome of a call
\* depends on the format and the input only.
NextDate ==
    \/ ~constructed /\ \E f \in DateFormats : TimeParser(f)
    \/ result = NoCall /\ \E t \in DateInputs : Parse(t)
    \/ ~constructed /\ \E f \in DateFormats, t \in DateInputs : Strptime(t, f)

SpecDate == Init /\ [][NextDate]_vars

\* The calendar of claim C1
C1_DaysInMonth(m, y) ==
    IF m = 2
    THEN (IF y % 4 = 0 /\ (y % 100 # 0 \/ y % 400 = 0) THEN 29 ELSE 28)
    ELSE IF m \in {4, 6, 9, 11} THEN 30 ELSE 31

C1_Valid(y, m, d) == 1 <= m /\ m <= 12 /\ 1 <= d /\ d <= C1_DaysInMonth(m, y)

C1_Outcome(y, m, d) ==
    IF C1_Valid(y, m, d)
    THEN result = Returned(<<y, m, d, 0, 0, 0, 0, 1, 0 - 1>>)
    ELSE ~result.ok /\ result.err \in RangeErrors /\ result.time = <<>>

\* C1: with a year-month-day format, parse returns (year, month, day) exactly
\* when 1 <= month <= 12 and 1 <= day <= days-in-month(month, year), with the
\* leap-year rule for February, and fails with a range error in every other
\* case (fields written with one or two digits).
C1_YearMonthDay ==
    (constructed /\ format \in DateFormats /\ result # NoCall) =>
        \A y \in Years :
            StartsWith(input, ToText(y) \o Dash) =>
            \A m \in 0..MaxMonthIn, zm \in BOOLEAN :
                StartsWith(input, ToText(y) \o Dash \o Num(m, zm) \o Dash) =>
                \A d \in 0..MaxDayIn, zd \in BOOLEAN :
                    input = YMDText(y, m, zm, d, zd) => C1_Outcome(y, m, d)

\* 2000-02-29 is accepted (divisible by 400) and 2200-02-29 was refused
C1_Witness ==
    /\ constructed /\ format = F_YMD
    /\ input = YMDText(2000, 2, TRUE, 29, TRUE)
    /\ result = Returned(<<2000, 2, 29, 0, 0, 0, 0, 1, 0 - 1>>)

\* ------------------------------------------------------------------------
\* Specification SpecTokens: formats built from the scanner's tokens
\* ------------------------------------------------------------------------
MaxTokens == 3   \* tokens per format, pieces per input

Max(a, b) == IF a > b THEN a ELSE b

\* Texts joined by dashes
RECURSIVE JoinFrom(_, _)
JoinFrom(parts, i) ==
    IF i > Len(parts) THEN <<>>
    ELSE IF i = Len(parts) THEN parts[i]
    ELSE parts[i] \o Dash \o JoinFrom(parts, i + 1)

Join(parts) == JoinFrom(parts, 1)

TokenTexts ==
    { <<"d", "d", "d">>, Tok_d, Tok_M, <<"M", "M", "M", "M">>,
      Tok_yyyy, <<"h">>, <<"t", "t">> }

PieceTexts ==
    { <<"u","n","d","e","f","i","n","e","d">>, <<"2">>, <<"3", "1">>,
      <<"M","a","r","c","h">>, culture_pm, <<"2","0","0","1">> }

TokenFormats(k) == {Join(ts) : ts \in [1..k -> TokenTexts]}

PieceInputs(k) == {Join(ps) : ps \in [1..k -> PieceTexts]}

\* An input with another number of dashes than the format cannot match
\* (no piece and no group holds a dash), so a format of k tokens is given
\* the inputs of k pieces.
NextTokens ==
    \/ ~constructed /\ \E k \in 1..MaxTokens :
                          \E f \in TokenFormats(k) : TimeParser(f)
    \/ result = NoCall /\ \E t \in PieceInputs(Len(expected)) : Parse(t)
    \/ ~constructed /\ \E f \in TokenFormats(1), t \in PieceInputs(1) :
                          Strptime(t, f)

SpecTokens == Init /\ [][NextTokens]_vars

\* C2 (as claimed): every record a successful parse returns has its month in
\* [1,12], its day in [1, days-in-month(month, year)], its hour in [0,23],
\* its minute and its second in [0,59].
C2_RecordInRange ==
    result.ok =>
        /\ result.time[2] \in 1..12
        /\ result.time[3] \in 1..C1_DaysInMonth(result.time[2], result.time[1])
        /\ result.time[4] \in 0..23
        /\ result.time[5] \in 0..59
        /\ result.time[6] \in 0..59

\* The directive codes that set each of the six fields
FieldCodes ==
    << {"yy", "yyyy"}, {"M", "MMM", "MMMM"}, {"d"}, {"H", "h"}, {"m"}, {"s"} >>

FieldAbsent(k) == \A i \in 1..Len(expected) : expected[i] \notin FieldCodes[k]

\* C3 (as claimed): a successful parse returns exactly 9 integers, a field
\* whose directive is absent from the format has its default, and slots 6, 7
\* and 8 are 0, 1 and -1.
C3_NineIntegers ==
    result.ok =>
        /\ Len(result.time) = 9
        /\ \A k \in 1..9 : result.time[k] \in Int /\ result.time[k] # NaN
        /\ \A k \in 1..6 : FieldAbsent(k) => result.time[k] = DefaultTime[k]
        /\ result.time[7] = 0 /\ result.time[8] = 1 /\ result.time[9] = 0 - 1

\* ------------------------------------------------------------------------
\* Specification SpecField: formats of a single numeric field
\* ------------------------------------------------------------------------
MonthFormats == {Tok_M, Tok_MM}

DayFormats == {Tok_d, Tok_dd}

Hour24Formats == {<<"H">>, <<"H", "H">>}

MinuteFormats == {<<"m">>, <<"m", "m">>}

SecondFormats == {<<"s">>, <<"s", "s">>}

FieldFormats ==
    MonthFormats \cup DayFormats \cup Hour24Formats
        \cup MinuteFormats \cup SecondFormats

FieldMax == Max(Max(MaxMonthIn, MaxDayIn), Max(MaxHourIn, MaxMinSecIn))

FieldInputs == {Num(n, z) : n \in 0..FieldMax, z \in BOOLEAN}

NextField ==
    \/ ~constructed /\ \E f \in FieldFormats : TimeParser(f)
    \/ result = NoCall /\ \E t \in FieldInputs : Parse(t)
    \/ ~constructed /\ \E f \in FieldFormats, t \in FieldInputs :
                          Strptime(t, f)

SpecField == Init /\ [][NextField]_vars

\* The record with slot k (1-based) set to n and the defaults elsewhere
DefaultWith(k, n) == [DefaultTime EXCEPT ![k] = n]

RangeFailure(err) == result = Threw(err) /\ err \in RangeErrors

C4_Field(formats, k, lo, hi, err) ==
    format \in formats =>
        \A n \in 0..FieldMax, z \in BOOLEAN :
            input = Num(n, z) =>
                IF lo <= n /\ n <= hi THEN result = Returned(DefaultWith(k, n))
                ELSE RangeFailure(err)

\* C4: with a single-field format, a value outside the field's range (month
\* 0 and 13, day 0 and 32, hour 24, minute 60, second 60, ...) makes parse
\* fail with a range error and return no record, and every value inside the
\* range is accepted.
C4_FieldBoundaries ==
    (constructed /\ result # NoCall) =>
        /\ C4_Field(MonthFormats, 2, 1, 12, "month")
        /\ C4_Field(DayFormats, 3, 1, 31, "day")
        /\ C4_Field(Hour24Formats, 4, 0, 23, "hour")
        /\ C4_Field(MinuteFormats, 5, 0, 59, "minute")
        /\ C4_Field(SecondFormats, 6, 0, 59, "second")

\* minute 60 was refused by the minute format
C4_Witness ==
    /\ constructed /\ format = <<"m", "m">>
    /\ input = <<"6", "0">> /\ result = Threw("minute")

\* ------------------------------------------------------------------------
\* Specification SpecYear: two-digit and four-digit years
\* ------------------------------------------------------------------------
F_YY == Tok_yy

F_MDYY == Tok_MM \o <<"/">> \o Tok_dd \o <<"/">> \o Tok_yy

F_YYYY == Tok_yyyy

F_YY_YYYY == Tok_yy \o Space \o Tok_yyyy

F_YYYY_YY == Tok_yyyy \o Space \o Tok_yy

YearFormats == {F_YY, F_MDYY, F_YYYY, F_YY_YYYY, F_YYYY_YY}

MDPrefix == <<"1", "0", "/", "2", "5", "/">>

YearInputs ==
    {Num(v, z) : v \in 0..MaxYY, z \in BOOLEAN}
        \cup {MDPrefix \o Num(v, z) : v \in 0..MaxYY, z \in BOOLEAN}
        \cup {ToText(y) : y \in Years}
        \cup {Num(v, TRUE) \o Space \o ToText(y) :
                 v \in {0, 6, 67, 68, 70, 99}, y \in Years}
        \cup {ToText(y) \o Space \o Num(v, TRUE) :
                 v \in {0, 6, 67, 68, 70, 99}, y \in Years}

NextYear ==
    \/ ~constructed /\ \E f \in YearFormats : TimeParser(f)
    \/ result = NoCall /\ \E t \in YearInputs : Parse(t)
    \/ ~constructed /\ \E f \in YearFormats, t \in YearInputs :
                          Strptime(t, f)

SpecYear == Init /\ [][NextYear]_vars

C5_Window(v) == IF v <= 67 THEN 2000 + v ELSE 1900 + v

\* C5: with a two-digit year directive and no four-digit one, a captured
\* value v in [0,67] gives the year 2000+v and v in [68,99] gives 1900+v;
\* with a four-digit year directive the captured value is the year.
C5_TwoDigitYear ==
    (constructed /\ result # NoCall) =>
        /\ \A v \in 0..Min(MaxYY, 99), z \in BOOLEAN :
               /\ format = F_YY /\ input = Num(v, z)
                      => result = Returned(DefaultWith(1, C5_Window(v)))
               /\ format = F_MDYY /\ input = MDPrefix \o Num(v, z)
                      => result = Returned(<<C5_Window(v), 10, 25,
                                             0, 0, 0, 0, 1, 0 - 1>>)
        /\ \A y \in Years :
               /\ format = F_YYYY /\ input = ToText(y)
                      => result = Returned(DefaultWith(1, y))
               /\ \A v \in {0, 6, 67, 68, 70, 99} :
                      \/ format = F_YY_YYYY
                             /\ input = Num(v, TRUE) \o Space \o ToText(y)
                      \/ format = F_YYYY_YY
                             /\ input = ToText(y) \o Space \o Num(v, TRUE)
                      => result = Returned(DefaultWith(1, y))

\* "68" was read as 1968 by the two-digit year format
C5_Witness ==
    /\ constructed /\ format = F_YY
    /\ input = <<"6", "8">> /\ result = Returned(DefaultWith(1, 1968))

\* ------------------------------------------------------------------------
\* Specification SpecHour: the 12-hour clock and the meridiem
\* ------------------------------------------------------------------------
Tok_h == <<"h">>

Tok_tt == <<"t", "t">>

F_H12 == Tok_h

F_HH12 == <<"h", "h">>

F_H12_TT == Tok_h \o Space \o Tok_tt

F_TT_H12 == Tok_tt \o Space \o Tok_h

F_H12_M_TT == Tok_h \o Colon \o <<"m", "m">> \o Space \o Tok_tt

Hour12Formats == {F_H12, F_HH12, F_H12_TT, F_TT_H12, F_H12_M_TT}

Meridiems == {culture_am, culture_pm}

Minute25 == <<"2", "5">>

HourInputs ==
    {Num(h, z) : h \in 0..MaxHourIn, z \in BOOLEAN}
        \cup {Num(h, z) \o Space \o mer :
                 h \in 0..MaxHourIn, z \in BOOLEAN, mer \in Meridiems}
        \cup {mer \o Space \o Num(h, z) :
                 h \in 0..MaxHourIn, z \in BOOLEAN, mer \in Meridiems}
        \cup {Num(h, z) \o Colon \o Minute25 \o Space \o mer :
                 h \in 0..MaxHourIn, z \in BOOLEAN, mer \in Meridiems}

NextHour ==
    \/ ~constructed /\ \E f \in Hour12Formats : TimeParser(f)
    \/ result = NoCall /\ \E t \in HourInputs : Parse(t)
    \/ ~constructed /\ \E f \in Hour12Formats, t \in HourInputs :
                          Strptime(t, f)

SpecHour == Init /\ [][NextHour]_vars

\* The hour of claim C6
C6_Hour(h, pm) == (h % 12) + (IF pm THEN 12 ELSE 0)

C6_Outcome(h, pm, minute) ==
    IF 1 <= h /\ h <= 12
    THEN result = Returned(<<1900, 1, 1, C6_Hour(h, pm), minute,
                             0, 0, 1, 0 - 1>>)
    ELSE RangeFailure("hour")

\* C6: with a 12-hour directive and no 24-hour directive, a captured hour h
\* in [1,12] gives (h mod 12), plus 12 if and only if a meridiem was captured
\* and is the locale's PM marker; h outside [1,12] fails with a range error.
C6_TwelveHourClock ==
    (constructed /\ result # NoCall) =>
        \A h \in 0..MaxHourIn, z \in BOOLEAN :
            /\ format \in {F_H12, F_HH12} /\ input = Num(h, z)
                   => C6_Outcome(h, FALSE, 0)
            /\ \A mer \in Meridiems :
                   /\ format = F_H12_TT /\ input = Num(h, z) \o Space \o mer
                          => C6_Outcome(h, mer = culture_pm, 0)
                   /\ format = F_TT_H12 /\ input = mer \o Space \o Num(h, z)
                          => C6_Outcome(h, mer = culture_pm, 0)
                   /\ format = F_H12_M_TT
                          /\ input = Num(h, z) \o Colon \o Minute25
                                         \o Space \o mer
                          => C6_Outcome(h, mer = culture_pm, 25)

\* "12:25 AM" was read as hour 0
C6_Witness ==
    /\ constructed /\ format = F_H12_M_TT
    /\ input = <<"1", "2">> \o Colon \o Minute25 \o Space \o culture_am
    /\ result = Returned(<<1900, 1, 1, 0, 25, 0, 0, 1, 0 - 1>>)

\* ------------------------------------------------------------------------
\* Specification SpecAnchor: texts with characters before or after a match
\* ------------------------------------------------------------------------
F_HM == <<"H", "H">> \o Colon \o <<"m", "m">>

AnchorFormats == {Tok_d, F_HM}

AnchorNumbers == {0, 1, 7, 12, 23, 24, 31, 59, 60}

ExtraChars == {"x", " ", ":", "7"}

CoreInputs ==
    {Num(n, z) : n \in AnchorNumbers, z \in BOOLEAN}
        \cup {Num(a, za) \o Colon \o Num(b, zb) :
                 a \in AnchorNumbers, b \in AnchorNumbers,
                 za \in BOOLEAN, zb \in BOOLEAN}

AnchorInputs ==
    CoreInputs
        \cup {<<c>> \o t : c \in ExtraChars, t \in CoreInputs}
        \cup {t \o <<c>> : c \in ExtraChars, t \in CoreInputs}

NextAnchor ==
    \/ ~constructed /\ \E f \in AnchorFormats : TimeParser(f)
    \/ result = NoCall /\ \E t \in AnchorInputs : Parse(t)
    \/ ~constructed /\ \E f \in AnchorFormats, t \in AnchorInputs :
                          Strptime(t, f)

SpecAnchor == Init /\ [][NextAnchor]_vars

\* The texts that are, in their entirety, what a format describes: one or
\* two digits for "d"; one or two digits, a colon, one or two digits for
\* "HH:mm".
C7_OneOrTwoDigits(t) ==
    Len(t) \in {1, 2} /\ \A i \in 1..Len(t) : t[i] \in DigitChars

C7_InLanguage(f, t) ==
    IF f = Tok_d THEN C7_OneOrTwoDigits(t)
    ELSE \E k \in 1..Len(t) :
             /\ t[k] = ":"
             /\ C7_OneOrTwoDigits(SubStr(t, 1, k - 1))
             /\ C7_OneOrTwoDigits(SubStr(t, k + 1, Len(t)))

C7_Lengthened(t) ==
    \E c \in ExtraChars : input = <<c>> \o t \/ input = t \o <<c>>

\* C7 (as claimed): an input that is a matching text with an extra leading
\* or trailing character is rejected with a parse error.
C7_ExtraCharacterRejected ==
    (constructed /\ result # NoCall) =>
        \A t \in CoreInputs :
            C7_InLanguage(format, t) /\ C7_Lengthened(t)
                => result = Threw("match")

\* C7 (amended): parse fails with a parse error and returns no record
\* exactly when the input is not, in its entirety, a text of the format; a
\* matching text with an extra leading or trailing character is rejected
\* unless the longer text is itself a text of the format (a digit next to a
\* one-or-two-digit field is read as part of the field).
C7_WholeInputMatched ==
    (constructed /\ result # NoCall) =>
        /\ ~C7_InLanguage(format, input) => result = Threw("match")
        /\ C7_InLanguage(format, input) => result.err # "match"
        /\ ~result.ok => result.time = <<>>
        /\ \A t \in CoreInputs :
               C7_InLanguage(format, t) /\ C7_Lengthened(t)
                   /\ ~C7_InLanguage(format, input)
                   => result = Threw("match")

\* "23:59x" was refused by the format HH:mm, which "23:59" matches
C7_Witness ==
    /\ constructed /\ format = F_HM
    /\ input = <<"2", "3", ":", "5", "9", "x">>
    /\ result = Threw("match")

\* ------------------------------------------------------------------------
\* Specification SpecPercent: the percent-sign formats of the tests
\* ------------------------------------------------------------------------
Pct(c) == <<"%", c>>

P_YMD == Pct("Y") \o Dash \o Pct("m") \o Dash \o Pct("d")

P_Hanging == P_YMD \o <<"%">>

P_BadCode == P_YMD \o Pct("q")

PercentFormats == {P_YMD, P_Hanging, P_BadCode}

PercentInputs ==
    {YMDText(y, 10, TRUE, 25, TRUE) : y \in Years}
        \cup {Pct("Y") \o Dash \o <<"%">> \o Num(a, TRUE) \o Dash
                  \o <<"%">> \o Num(b, TRUE) \o suffix :
                 a \in {5, 30, 59, 60}, b \in {0, 7, 25, 31, 32},
                 suffix \in {<<>>, <<"%">>, Pct("q")}}

NextPercent ==
    \/ ~constructed /\ \E f \in PercentFormats : TimeParser(f)
    \/ result = NoCall /\ \E t \in PercentInputs : Parse(t)
    \/ ~constructed /\ \E f \in PercentFormats, t \in PercentInputs :
                          Strptime(t, f)

SpecPercent == Init /\ [][NextPercent]_vars

\* The directive codes the tests and the formatter use after a percent sign
C8_KnownCodes ==
    {"Y", "y", "m", "d", "b", "B", "H", "I", "M", "S", "p", "t", "n", "%"}

C8_Malformed(f) ==
    \E i \in 1..Len(f) :
        /\ f[i] = "%"
        /\ (i = 1 \/ f[i - 1] # "%")
        /\ (i = Len(f) \/ f[i + 1] \notin C8_KnownCodes)

\* C8 (as claimed): constructing a TimeParser from a format with a trailing
\* incomplete directive token or an unrecognised directive code fails, so no
\* parser of such a format exists, whatever input would be parsed later.
C8_MalformedFormatRefused ==
    constructed => ~C8_Malformed(format)

\* ------------------------------------------------------------------------
\* Specification SpecFormat: strftime, and strptime of what it wrote
\* ------------------------------------------------------------------------
Moments ==
    [FullYear : {1999, 2006}, Month : {0, 9, 11}, Date : {1, 25, 31},
     Hours : {0, 14, 23}, Minutes : {0, 30}, Seconds : {5, 59}]

S_Date == P_YMD

S_Time == Pct("H") \o Colon \o Pct("M") \o Colon \o Pct("S")

S_DateTime == S_Date \o Space \o S_Time

S_Unknown == S_Date \o Space \o Pct("q") \o Space \o S_Time

S_Hanging == S_DateTime \o <<"%">>

S_Percent == Pct("%") \o Pct("d")

N_DateTime ==
    F_YMD \o Space \o <<"H", "H">> \o Colon \o <<"m", "m">>
          \o Colon \o <<"s", "s">>

StrftimeFormats ==
    {S_Date, S_Time, S_DateTime, S_Unknown, S_Hanging, S_Percent, N_DateTime}

NextFormat ==
    \/ formatted = NotFormatted
           /\ \E d \in Moments, f \in StrftimeFormats : Strftime(d, f)
    \/ formatted # NotFormatted /\ ~constructed
           /\ Strptime(formatted, fformat)

SpecFormat == Init /\ [][NextFormat]_vars

\* The strftime directive of each of the six fields, and the moment's fields
\* in the order of the record
C9_Directives == <<"Y", "m", "d", "H", "M", "S">>

C9_Fields(d) ==
    <<d.FullYear, d.Month + 1, d.Date, d.Hours, d.Minutes, d.Seconds>>

C9_Encodes(f, k) ==
    \E i \in 1..(Len(f) - 1) : f[i] = "%" /\ f[i + 1] = C9_Directives[k]

\* C9 (as claimed): parsing what strftime wrote for a moment, with the same
\* format, succeeds and gives back every field the format encodes; the
\* fields it does not encode have their defaults.
C9_RoundTrip ==
    (constructed /\ result # NoCall /\ format = fformat /\ input = formatted
         /\ fformat \in {S_Date, S_Time, S_DateTime})
        => /\ result.ok
           /\ \A k \in 1..6 :
                  result.time[k] = IF C9_Encodes(fformat, k)
                                   THEN C9_Fields(fdate)[k]
                                   ELSE DefaultTime[k]

\* C10's reading of a format: the two-character tokens %x whose code x is
\* none of d, H, M, m, S, Y, % are taken out.
RECURSIVE C10_DropUnknown(_, _)
C10_DropUnknown(f, i) ==
    IF i > Len(f) THEN <<>>
    ELSE IF f[i] = "%" /\ i + 1 <= Len(f) /\ f[i + 1] \in WordChars \cup {"%"}
         THEN (IF f[i + 1] \in {"d", "H", "M", "m", "S", "Y", "%"}
               THEN <<f[i], f[i + 1]>> ELSE <<>>)
                  \o C10_DropUnknown(f, i + 2)
         ELSE <<f[i]>> \o C10_DropUnknown(f, i + 1)

\* C10 (as claimed): an unrecognised directive token contributes the empty
\* text, so the output is the output of the format without such tokens.
C10_UnknownDropped ==
    formatted # NotFormatted =>
        formatted = strftime(fdate, C10_DropUnknown(fformat, 1))

\* C11 (as claimed): a format that ends in a lone "%" makes strftime fail,
\* so no text is ever returned for such a format.
C11_EndsIncomplete(f) ==
    /\ Len(f) > 0
    /\ f[Len(f)] = "%"
    /\ (Len(f) = 1 \/ f[Len(f) - 1] # "%")

C11_HangingPercentFails ==
    formatted # NotFormatted => ~C11_EndsIncomplete(fformat)

\* What C12 says of a number: its two decimal digits, and the four of a year
C12_Two(n) == <<Digits[(n \div 10) + 1], Digits[(n % 10) + 1]>>

C12_Four(y) == C12_Two(y \div 100) \o C12_Two(y % 100)

C12_Value(d, c) ==
    IF c = "d" THEN C12_Two(d.Date)
    ELSE IF c = "H" THEN C12_Two(d.Hours)
    ELSE IF c = "M" THEN C12_Two(d.Minutes)
    ELSE IF c = "m" THEN C12_Two(d.Month + 1)
    ELSE IF c = "S" THEN C12_Two(d.Seconds)
    ELSE C12_Four(d.FullYear)

\* The formats C12 speaks of: every "%" starts one of the six directives
C12_Plain(f) ==
    \A i \in 1..Len(f) :
        f[i] = "%" => /\ i < Len(f)
                      /\ f[i + 1] \in {"d", "H", "M", "m", "S", "Y"}

RECURSIVE C12_Render(_, _, _)
C12_Render(d, f, i) ==
    IF i > Len(f) THEN <<>>
    ELSE IF f[i] = "%"
         THEN C12_Value(d, f[i + 1]) \o C12_Render(d, f, i + 2)
         ELSE <<f[i]>> \o C12_Render(d, f, i + 1)

C13_PercentLiteral ==
    (formatted # NotFormatted /\ fformat = S_Percent)
        => formatted = <<"%">> \o C12_Two(fdate.Date)

\* ------------------------------------------------------------------------
\* Specification SpecReuse: one parser, parse called on it again and again
\* ------------------------------------------------------------------------
MaxCalls == 3

ReuseFormats == {F_YMD, F_HM, F_H12_TT, Tok_d}

ReuseInputs ==
    {YMDText(2006, 10, TRUE, 25, TRUE), YMDText(2006, 2, TRUE, 30, TRUE),
     YMDText(2004, 13, TRUE, 1, TRUE),
     Num(14, TRUE) \o Colon \o Num(30, TRUE),
     Num(24, TRUE) \o Colon \o Num(0, TRUE),
     Num(7, FALSE) \o Space \o culture_pm,
     Num(13, FALSE) \o Space \o culture_pm,
     Num(31, FALSE), Num(0, FALSE), <<"x">>}

NextReuse ==
    \/ ~constructed /\ \E f \in ReuseFormats : TimeParser(f)
    \/ ncalls < MaxCalls /\ \E t \in ReuseInputs : Parse(t)

SpecReuse == Init /\ [][NextReuse]_vars

C20_Groups(p) == Cardinality({i \in 1..Len(p) : p[i].k \in GroupKinds})

\* C20 (as claimed): every token the scanner recognises gives the pattern
\* one capturing group and the expected sequence one entry, so a compiled
\* parser has as many groups as expected directives.
C20_OneGroupPerToken ==
    constructed => C20_Groups(regexp) = Len(expected)

\* ------------------------------------------------------------------------
\* Specification SpecFormSet: one formset of the Choice form is built, bound
\* or unbound, and then used
\* ------------------------------------------------------------------------
MaxRows == 2

MaxInitial == 2

MaxExtra == 2

MaxNumIn == 3

T_Calexico == <<"C", "a", "l", "e", "x", "i", "c", "o">>

T_100 == <<"1", "0", "0">>

T_On == <<"o", "n">>

Rows ==
    [choice : {<<>>, T_Calexico}, votes : {<<>>, T_100},
     ORDER : {Missing}, DELETE : {Missing, T_On}]

BoundData ==
    [TOTAL_FORMS   : {Missing} \cup {ToText(k) : k \in 1..MaxRows},
     INITIAL_FORMS : {ToText(k) : k \in 0..MaxRows},
     MAX_NUM_FORMS : {Missing, <<"0">>},
     rows          : [1..MaxRows -> Rows]]

I_Calexico ==
    [names |-> {"choice", "votes"}, choice |-> T_Calexico, votes |-> 100]

InitialLists == {[k \in 1..n |-> I_Calexico] : n \in 0..MaxInitial}

BoundKwargs ==
    [hasData : {TRUE}, hasFiles : {FALSE}, data : BoundData,
     initial : {<<>>, <<I_Calexico>>}]

UnboundKwargs ==
    [hasData : {FALSE}, hasFiles : BOOLEAN, data : {NoData},
     initial : InitialLists]

\* The defaults of formsetFactory, but for canDelete
FactoryDefaults(canDelete) ==
    [extra |-> 1, maxNum |-> 0, canOrder |-> FALSE, canDelete |-> canDelete,
     cleanRaises |-> FALSE]

FactoryOptions ==
    [extra : 0..MaxExtra, maxNum : 0..MaxNumIn, canOrder : {FALSE},
     canDelete : BOOLEAN, cleanRaises : {FALSE}]

NextFormSet ==
    \/ outcome = NoOutcome
           /\ \E kwargs \in BoundKwargs, c \in BOOLEAN :
                  FormSet(kwargs, FactoryDefaults(c))
    \/ IsValid
    \/ Errors
    \/ DeletedForms
    \/ AsTable
    \/ \E i \in 0..(MaxRows - 1) : FormIsValid(i)

SpecFormSet == Init /\ [][NextFormSet]_vars

\* Specification SpecUnbound: the formset is built without data
NextUnbound ==
    \/ outcome = NoOutcome
           /\ \E kwargs \in UnboundKwargs, options \in FactoryOptions :
                  FormSet(kwargs, options)
    \/ IsValid
    \/ Errors
    \/ DeletedForms
    \/ AsTable
    \/ \E i \in 0..(MaxInitial + MaxExtra - 1) : FormIsValid(i)

SpecUnbound == Init /\ [][NextUnbound]_vars

\* The number a text of the data was written for, MaxRows + 1 if none
C15_Number(t) ==
    IF \E n \in 0..MaxRows : ToText(n) = t
    THEN CHOOSE n \in 0..MaxRows : ToText(n) = t
    ELSE MaxRows + 1

\* The data C15 speaks of: both counts are there, and every counted form
\* has a choice and a whole number of votes
C15_Supplied(data) ==
    /\ C15_Number(data.TOTAL_FORMS) <= MaxRows
    /\ C15_Number(data.INITIAL_FORMS) <= MaxRows
    /\ \A k \in 1..C15_Number(data.TOTAL_FORMS) :
           data.rows[k].choice = T_Calexico /\ data.rows[k].votes = T_100

\* C15 (as claimed): with such data the constructor does not throw,
\* isValid() returns true, and every form's cleanedData holds the choice
\* and the number of votes.
C15_ValidDataAccepted ==
    (formset.hasData /\ C15_Supplied(formset.data)) =>
        /\ (outcome.op = "new" => outcome.thrown = "")
        /\ (outcome.op = "isValid" =>
               /\ outcome.value
               /\ \A k \in 1..Len(formset.forms) :
                      /\ formset.forms[k].hasCleanedData
                      /\ formset.forms[k].cleanedData.choice = T_Calexico
                      /\ formset.forms[k].cleanedData.votes = 100)

\* C16: a formset built with neither data nor files is unbound and so are
\* its forms; isValid() of the formset and of each form would return false
\* in every state of its life, and did whenever it was called.
C16_UnboundNeverValid ==
    (built /\ ~formset.hasData /\ ~formset.hasFiles) =>
        /\ ~formset.isBound
        /\ ~BaseFormSet_isValid(formset).value
        /\ \A k \in 1..Len(formset.forms) :
               /\ ~formset.forms[k].isBound
               /\ ~Form_isValid(formset.forms[k], formset.data).value
        /\ (outcome.op \in {"isValid", "form.isValid"} => ~outcome.value)

\* isValid() was just called on an unbound formset that was given initial
\* data, after its errors were read and its forms rendered
C16_Witness ==
    /\ built /\ ~formset.isBound
    /\ Len(formset.initial) > 0
    /\ ~formset.errorsNull
    /\ \E k \in 1..Len(formset.forms) : ~formset.forms[k].errorsNull
    /\ outcome.op = "isValid" /\ ~outcome.value

\* The bound formsets C17 speaks of, and the values submitted for form k
C17_Bound == built /\ formset.isBound

C17_Row(k) == formset.data.rows[k]

\* Form k is an extra form: its index is not below INITIAL_FORMS
C17_Extra(k) == k - 1 >= C15_Number(formset.data.INITIAL_FORMS)

\* The fields of form k that were submitted with a value, and its required
\* fields that were submitted blank
C17_Filled(k) ==
    {n \in {"choice", "votes", "DELETE"} :
        /\ \E j \in 1..Len(formset.forms[k].fields) :
               formset.forms[k].fields[j] = n
        /\ C17_Row(k)[n] \notin {<<>>, Missing}}

C17_BlankRequired(k) == {n \in {"choice", "votes"} : C17_Row(k)[n] = <<>>}

\* An extra form of blank initial values submitted blank; a form of the
\* initial ones submitted blank; an extra form submitted half filled
C17_UnchangedExtra(k) ==
    C17_Extra(k) /\ C17_Filled(k) = {} /\ formset.forms[k].initial = NoInitial

C17_BlankInitial(k) == ~C17_Extra(k) /\ C17_Filled(k) = {}

C17_HalfFilled(k) ==
    C17_Extra(k) /\ C17_Filled(k) # {} /\ C17_BlankRequired(k) # {}

\* What a cleaned form k reports in each of the three cases
C17_Reports(k) ==
    LET form == formset.forms[k]
    IN  ~form.errorsNull =>
            /\ C17_UnchangedExtra(k) =>
                   /\ ~isPopulated(form._errors)
                   /\ form.hasCleanedData
                   /\ form.cleanedData.names = {}
            /\ (C17_BlankInitial(k) \/ C17_HalfFilled(k)) =>
                   \A n \in C17_BlankRequired(k) :
                       form._errors[n] = "This field is required."

\* Form k is marked for deletion in a formset that can delete
C17_Marked(k) == formset.canDelete /\ "DELETE" \in C17_Filled(k)

\* C17 (as claimed): an unchanged extra form is accepted with no errors and
\* an empty cleanedData; an initial form submitted blank, and an extra form
\* with a required field blank and another field filled, report the
\* required fields and make isValid() false.
C17_BlankFormsAsClaimed ==
    C17_Bound =>
        \A k \in 1..Len(formset.forms) :
            /\ C17_Reports(k)
            /\ (outcome.op = "isValid"
                    /\ (C17_BlankInitial(k) \/ C17_HalfFilled(k)))
                   => ~outcome.value

\* C17 (amended): the same, but isValid() is false for the half filled
\* extra form only if that form is not marked for deletion.
C17_BlankForms ==
    C17_Bound =>
        \A k \in 1..Len(formset.forms) :
            /\ C17_Reports(k)
            /\ (outcome.op = "isValid"
                    /\ (C17_BlankInitial(k)
                           \/ (C17_HalfFilled(k) /\ ~C17_Marked(k))))
                   => ~outcome.value

\* isValid() was false for two extra forms, the first with a choice and no
\* votes, reporting the votes, the second blank and accepted
C17_Witness ==
    /\ C17_Bound /\ Len(formset.forms) = 2
    /\ outcome.op = "isValid" /\ ~outcome.value
    /\ C17_HalfFilled(1) /\ ~C17_Marked(1)
    /\ formset.forms[1]._errors.votes = "This field is required."
    /\ C17_UnchangedExtra(2)
    /\ ~formset.forms[2].errorsNull /\ formset.forms[2].hasCleanedData

\* The forms C18 expects: the indexes, in order, of the forms submitted
\* with their DELETE box checked (such a form has changed)
C18_Wanted ==
    SelectSeq([k \in 1..Len(formset.forms) |-> k - 1],
              LAMBDA i : C17_Row(i + 1).DELETE = T_On)

\* C18 (as claimed): in a valid formset that can delete, deletedForms
\* returns, without throwing, the forms whose DELETE cleaned to true, in
\* index order, whatever their other values; otherwise it throws.
C18_DeletedFormsAsClaimed ==
    (built /\ outcome.op = "deletedForms") =>
        IF formset.canDelete /\ BaseFormSet_isValid(formset).value
        THEN outcome.thrown = "" /\ outcome.indexes = C18_Wanted
        ELSE outcome.thrown = "Error"

\* C19's cap: a count above a positive maxNum becomes maxNum
C19_Cap(n, maxNum) == IF maxNum > 0 /\ n > maxNum THEN maxNum ELSE n

\* C19: an unbound formset has (initial objects + extra) forms, capped at
\* maxNum, of which (initial objects, capped) are initial forms, the others
\* being the ones allowed to be empty; the factory defaults without
\* initial data give one blank form; initial forms never outnumber forms.
C19_FormCounts ==
    (built /\ ~formset.isBound) =>
        LET given == Len(formset.initial)
        IN  /\ Len(formset.forms)
                   = C19_Cap(given + formset.extra, formset.maxNum)
            /\ totalFormCount(formset) = Len(formset.forms)
            /\ initialFormCount(formset) = C19_Cap(given, formset.maxNum)
            /\ initialFormCount(formset) <= totalFormCount(formset)
            /\ \A k \in 1..Len(formset.forms) :
                   formset.forms[k].emptyPermitted
                       <=> k > C19_Cap(given, formset.maxNum)
            /\ (given = 0 /\ formset.extra = 1 /\ formset.maxNum = 0) =>
                   /\ Len(formset.forms) = 1
                   /\ formset.forms[1].initial = NoInitial
                   /\ ~formset.forms[1].isBound

\* Two initial objects and two extra forms under maxNum 1: one form, and
\* it is an initial one
C19_Witness ==
    /\ built /\ ~formset.isBound
    /\ Len(formset.initial) = 2 /\ formset.extra = 2 /\ formset.maxNum = 1
    /\ Len(formset.forms) = 1
    /\ ~formset.forms[1].emptyPermitted

\* ------------------------------------------------------------------------
\* Specification SpecRepeat: formats that name the month and the day in
\* several ways, or more than once
\* ------------------------------------------------------------------------
MaxRepeat == 3   \* tokens per format, pieces per input

RepeatTokens ==
    { Tok_M, Tok_MM, <<"M", "M", "M">>, <<"M", "M", "M", "M">>,
      Tok_d, <<"d", "d", "d">> }

RepeatPieces ==
    { <<"3">>, <<"1", "3">>, <<"M","a","r">>, <<"M","a","r","c","h">>,
      <<"u","n","d","e","f","i","n","e","d">> }

RepeatFormats(k) == {Join(ts) : ts \in [1..k -> RepeatTokens]}

RepeatInputs(k) == {Join(ps) : ps \in [1..k -> RepeatPieces]}

NextRepeat ==
    \/ ~constructed /\ \E k \in 1..MaxRepeat :
                          \E f \in RepeatFormats(k) : TimeParser(f)
    \/ result = NoCall /\ \E t \in RepeatInputs(Len(expected)) : Parse(t)
    \/ ~constructed /\ \E f \in RepeatFormats(1), t \in RepeatInputs(1) :
                          Strptime(t, f)

SpecRepeat == Init /\ [][NextRepeat]_vars

\* The text that the last directive of a code captured: the directives of
\* the format are walked in order, each one that has a group in the pattern
\* taking the next capture.  Undefined when no directive of the code has a
\* capture.
RECURSIVE C21_CaptureOf(_, _, _, _, _, _)
C21_CaptureOf(codes, caps, i, g, code, found) ==
    IF i > Len(codes) THEN found
    ELSE IF codes[i] \in {"ddd", "dddd"}
    THEN C21_CaptureOf(codes, caps, i + 1, g, code, found)
    ELSE C21_CaptureOf(codes, caps, i + 1, g + 1, code,
                       IF codes[i] = code THEN caps[g] ELSE found)

C21_Captured(code) ==
    C21_CaptureOf(expected, exec(regexp, input).caps, 1, 1, code, Undefined)

C21_Position(name, list) == CHOOSE i \in 1..Len(list) : list[i] = name

C21_MonthIs(m) == result.ok => result.time[2] = m

\* C21 (as claimed): whatever the order of the directives, the month is the
\* range-checked value of the numeric month directive if one was captured,
\* otherwise the 1-based position of the captured full month name,
\* otherwise the 1-based position of the captured abbreviated name,
\* otherwise the default 1.
C21_MonthPrecedence ==
    (constructed /\ result # NoCall /\ result.err # "match") =>
        IF C21_Captured("M") # Undefined
        THEN IF parseInt(C21_Captured("M")) \in 1..12
             THEN C21_MonthIs(parseInt(C21_Captured("M")))
             ELSE result = Threw("month")
        ELSE IF C21_Captured("MMMM") # Undefined
        THEN C21_MonthIs(C21_Position(C21_Captured("MMMM"), culture_months))
        ELSE IF C21_Captured("MMM") # Undefined
        THEN C21_MonthIs(C21_Position(C21_Captured("MMM"),
                                      culture_shortMonths))
        ELSE C21_MonthIs(DefaultTime[2])

\* The data object of the last parse call
C22_Data ==
    Collect(expected, exec(regexp, input).caps, 1,
            [c \in Codes |-> Undefined])

C22_NotFound(code, list) ==
    C22_Data[code] # Undefined /\ _indexOf(C22_Data[code], list) = 0 - 1

\* C22 (as claimed): when the text held for the month-name directive that
\* sets the month is not in the locale's list, the month is left unset and
\* the record carries the default month 1.
C22_UnknownNameGivesDefault ==
    (constructed /\ result.ok /\ C22_Data["M"] = Undefined) =>
        /\ C22_NotFound("MMMM", culture_months) => result.time[2] = 1
        /\ (C22_Data["MMMM"] = Undefined
              /\ C22_NotFound("MMM", culture_shortMonths))
               => result.time[2] = 1

C23_Occurrences(code) ==
    Cardinality({i \in 1..Len(expected) : expected[i] = code})

\* C23 (as claimed): when the numeric month or the day directive occurs
\* more than once in the format (with one or two letters), the field of a
\* returned record has the value captured by the last occurrence.
C23_LastOccurrenceWins ==
    (constructed /\ result.ok) =>
        /\ C23_Occurrences("M") > 1
               => result.time[2] = parseInt(C21_Captured("M"))
        /\ C23_Occurrences("d") > 1
               => result.time[3] = parseInt(C21_Captured("d"))

\* ------------------------------------------------------------------------
\* Specification SpecLiteral: a day and a month with separators or one
\* punctuation character between them
\* ------------------------------------------------------------------------
MaxRun == 2   \* separators per run of the format, characters per input run

SeparatorTexts == { <<" ">>, <<"\t">>, <<"%", "t">>, <<"%", "n">> }

RECURSIVE Concat(_, _)
Concat(parts, i) ==
    IF i > Len(parts) THEN <<>> ELSE parts[i] \o Concat(parts, i + 1)

SeparatorRuns ==
    UNION {{Concat(us, 1) : us \in [1..k -> SeparatorTexts]} : k \in 1..MaxRun}

WhiteRuns == UNION {[1..k -> WhiteSpace] : k \in 0..MaxRun}

Punctuation == {".", "-", ":", "/"}

LiteralFormats ==
    {Tok_d \o s \o Tok_M : s \in SeparatorRuns}
        \cup {Tok_d \o <<c>> \o Tok_M : c \in Punctuation}

DayTexts == {<<"3">>, <<"1", "3">>}

MonthTexts == {<<"4">>, <<"1", "3">>}

LiteralInputs ==
    {a \o s \o b :
        a \in DayTexts, b \in MonthTexts,
        s \in WhiteRuns \cup {<<c>> : c \in Punctuation \cup {"x"}}}

NextLiteral ==
    \/ ~constructed /\ \E f \in LiteralFormats : TimeParser(f)
    \/ result = NoCall /\ \E t \in LiteralInputs : Parse(t)
    \/ ~constructed /\ \E f \in LiteralFormats, t \in LiteralInputs :
                          Strptime(t, f)

SpecLiteral == Init /\ [][NextLiteral]_vars

\* The formats that differ from f only in the length of the separator run
\* between the day and the month
C24_SameButRun(f) ==
    {g \in LiteralFormats :
        /\ SubStr(f, 2, Len(f) - 1) \in SeparatorRuns
        /\ SubStr(g, 2, Len(g) - 1) \in SeparatorRuns}

\* The inputs that differ from t only in the length of the whitespace run
\* between the day and the month
C24_SameButSpacing(t) ==
    {u \in LiteralInputs :
        \E a \in DayTexts, b \in MonthTexts :
            \E s1 \in WhiteRuns \ {<<>>}, s2 \in WhiteRuns \ {<<>>} :
                t = a \o s1 \o b /\ u = a \o s2 \o b}

\* C24 (as claimed): formats that differ only in the lengths of their
\* separator runs, given inputs that differ only in the lengths of their
\* whitespace runs, have the same outcome.
C24_SpacingForgiven ==
    (constructed /\ result # NoCall) =>
        \A g \in C24_SameButRun(format), u \in C24_SameButSpacing(input) :
            strptime(u, g) = result

\* C25 (as claimed): a character of the format that is no part of a
\* directive is a literal, and an input matches only if it has that same
\* character at that position.
C25_LiteralsMatchExactly ==
    (constructed /\ result # NoCall /\ result.err # "match"
        /\ Len(format) = 3 /\ format[2] \in Punctuation) =>
        \E k \in 2..(Len(input) - 1) :
            /\ input[k] = format[2]
            /\ \A i \in 1..Len(input) : i # k => input[i] \in DigitChars

\* ------------------------------------------------------------------------
\* Specification SpecHook: bound formsets of none, one or two forms, whose
\* factory was or was not given a clean method that throws
\* ------------------------------------------------------------------------
HookData ==
    [TOTAL_FORMS   : {ToText(k) : k \in 0..MaxRows},
     INITIAL_FORMS : {<<"0">>},
     MAX_NUM_FORMS : {<<"0">>},
     rows          : [1..MaxRows -> Rows]]

HookKwargs ==
    [hasData : {TRUE}, hasFiles : {FALSE}, data : HookData, initial : {<<>>}]

HookOptions ==
    [extra : {1}, maxNum : {0}, canOrder : {FALSE}, canDelete : BOOLEAN,
     cleanRaises : BOOLEAN]

NextHook ==
    \/ outcome = NoOutcome
           /\ \E kwargs \in HookKwargs, options \in HookOptions :
                  FormSet(kwargs, options)
    \/ IsValid
    \/ Errors
    \/ DeletedForms
    \/ AsTable
    \/ \E i \in 0..(MaxRows - 1) : FormIsValid(i)

SpecHook == Init /\ [][NextHook]_vars

\* C26 (as claimed): for every bound formset, of any number of forms, with
\* or without canDelete, whose clean() throws a ValidationError, isValid()
\* has run the hook and returned false, and nonFormErrors() then returns
\* the messages of the error.
C26_HookRefuses ==
    (built /\ formset.isBound /\ formset.cleanRaises
        /\ outcome.op = "isValid") =>
        /\ ~outcome.value
        /\ ~formset.nonFormErrorsNull
        /\ formset._nonFormErrors = <<CleanMessage>>

\* ------------------------------------------------------------------------
\* Specification SpecOrder: bound formsets that can or cannot order and
\* delete, and every read of them in every order
\* ------------------------------------------------------------------------
OrderRow(choice, votes, order, delete) ==
    [choice |-> choice, votes |-> votes, ORDER |-> order, DELETE |-> delete]

OrderRows ==
    { OrderRow(<<>>, <<>>, <<>>, Missing),
      OrderRow(T_Calexico, T_100, <<"1">>, Missing),
      OrderRow(T_Calexico, T_100, <<"2">>, Missing),
      OrderRow(T_Calexico, T_100, <<>>, Missing),
      OrderRow(T_Calexico, <<>>, <<"1">>, Missing),
      OrderRow(T_Calexico, T_100, <<"1">>, T_On),
      OrderRow(T_Calexico, <<>>, <<>>, T_On) }

OrderData ==
    [TOTAL_FORMS   : {ToText(k) : k \in 0..MaxRows},
     INITIAL_FORMS : {<<"0">>, <<"1">>},
     MAX_NUM_FORMS : {<<"0">>},
     rows          : [1..MaxRows -> OrderRows]]

OrderKwargs ==
    [hasData : {TRUE}, hasFiles : {FALSE}, data : OrderData, initial : {<<>>}]

OrderOptions ==
    [extra : {1}, maxNum : {0}, canOrder : BOOLEAN, canDelete : BOOLEAN,
     cleanRaises : {FALSE}]

NextOrder ==
    \/ outcome = NoOutcome
           /\ \E kwargs \in OrderKwargs, options \in OrderOptions :
                  FormSet(kwargs, options)
    \/ IsValid
    \/ Errors
    \/ DeletedForms
    \/ OrderedForms
    \/ AsTable
    \/ \E i \in 0..(MaxRows - 1) : FormIsValid(i)

SpecOrder == Init /\ [][NextOrder]_vars

\* Form k was submitted marked for deletion; form k is an extra form
\* submitted as it was shown, blank
C27_Marked(k) == formset.canDelete /\ C17_Row(k).DELETE = T_On

C27_UnchangedExtra(k) ==
    /\ C17_Extra(k)
    /\ C17_Row(k).choice = <<>> /\ C17_Row(k).votes = <<>>
    /\ C17_Row(k).ORDER \in {<<>>, Missing}
    /\ C17_Row(k).DELETE = Missing

\* The indexes of the forms orderedForms is to return
C27_Wanted ==
    {k - 1 : k \in {j \in 1..Len(formset.forms) :
                       ~C27_Marked(j) /\ ~C27_UnchangedExtra(j)}}

\* The ORDER submitted for the form of index i, NullNumber if blank
C27_Order(i) ==
    IF C17_Row(i + 1).ORDER \in {<<>>, Missing} THEN NullNumber
    ELSE C15_Number(C17_Row(i + 1).ORDER)

\* Ascending ORDER, the forms without one last and by index
C27_InOrder(indexes) ==
    \A a, b \in 1..Len(indexes) :
        a < b =>
            IF C27_Order(indexes[a]) = NullNumber
            THEN C27_Order(indexes[b]) = NullNumber
                     /\ indexes[a] < indexes[b]
            ELSE C27_Order(indexes[b]) = NullNumber
                     \/ C27_Order(indexes[a]) <= C27_Order(indexes[b])

\* C27 (as claimed): in a valid formset that can order, orderedForms
\* returns, without throwing, each form that is neither marked for
\* deletion nor an unchanged extra form exactly once, by ascending ORDER,
\* the forms with no ORDER last and by index; otherwise it throws.
C27_OrderedFormsAsClaimed ==
    (built /\ outcome.op = "orderedForms") =>
        IF formset.canOrder /\ BaseFormSet_isValid(formset).value
        THEN /\ outcome.thrown = ""
             /\ {outcome.indexes[k] : k \in 1..Len(outcome.indexes)}
                    = C27_Wanted
             /\ Len(outcome.indexes) = Cardinality(C27_Wanted)
             /\ C27_InOrder(outcome.indexes)
        ELSE outcome.thrown = "Error"

\* ------------------------------------------------------------------------
\* Specification SpecChoice: one form that is in no formset, bound or not,
\* allowed to be empty or not, with the default clean() or a throwing one
\* ------------------------------------------------------------------------
ChoiceRows ==
    [choice : {<<>>, T_Calexico}, votes : {<<>>, T_100, <<"a">>},
     ORDER : {Missing}, DELETE : {Missing}]

ChoiceKwargs ==
    [hasData : {TRUE}, emptyPermitted : BOOLEAN,
     data : [TOTAL_FORMS : {Missing}, INITIAL_FORMS : {Missing},
             MAX_NUM_FORMS : {Missing}, rows : [1..1 -> ChoiceRows]]]
        \cup [hasData : {FALSE}, emptyPermitted : BOOLEAN, data : {NoData}]

NextChoice ==
    \/ ~made /\ \E kwargs \in ChoiceKwargs, cleanThrows \in BOOLEAN :
                    Choice(kwargs, cleanThrows)
    \/ ChoiceErrors
    \/ ChoiceIsValid

SpecChoice == Init /\ [][NextChoice]_vars

\* What C28 says of a form after fullClean
C28_After(f) ==
    IF f.isBound
    THEN /\ f.hasCleanedData <=> ~isPopulated(f._errors)
         /\ \A n \in DOMAIN f._errors :
                f._errors[n] # "" => n \notin f.cleanedData.names
    ELSE ~isPopulated(f._errors) /\ ~f.hasCleanedData

\* C28: once fullClean has completed on a form with the default clean(), a
\* bound form has cleanedData exactly when it has no errors, and no field
\* is in both; an unbound form has no errors and no cleanedData.
C28_CleanedOrErrors ==
    (made /\ ~theForm.cleanThrows /\ ~theForm.errorsNull) =>
        C28_After(theForm)

\* isValid() was false for a bound form with a choice and votes that are
\* no number: the votes are reported and cleanedData is gone
C28_Witness ==
    /\ made /\ theForm.isBound /\ ~theForm.cleanThrows
    /\ ~theForm.emptyPermitted
    /\ outcome.op = "choice.isValid" /\ ~outcome.value
    /\ theForm._errors.votes = WholeNumberMessage
    /\ theForm._errors.choice = ""
    /\ ~theForm.hasCleanedData

\* C29 (as claimed): when clean() throws an Error that is no
\* ValidationError, the read that ran fullClean throws it on and _errors
\* is still null, and isValid() never returns true for that form.
C29_AbortLeavesNoTrace ==
    (made /\ fullCleanThrows(theForm, theForm.data)
        /\ outcome.op \in {"choice.errors", "choice.isValid"}) =>
        /\ theForm.errorsNull
        /\ outcome.thrown = "Error"
        /\ ~outcome.value

\* ------------------------------------------------------------------------
\* C30, checked under SpecOrder (a formset and its forms, read in every
\* order) and holding under SpecChoice as well (a form on its own)
\* ------------------------------------------------------------------------
\* fullClean has run at most once on the formset, on each of its forms and
\* on the form that is in no formset
C30_AtMostOnce ==
    /\ formset.fullCleans <= 1
    /\ theForm.fullCleans <= 1
    /\ \A k \in DOMAIN formset.forms : formset.forms[k].fullCleans <= 1

\* Once _errors of an instance is there, a step leaves it as it is
C30_ErrorsKept(before, after) ==
    ~before.errorsNull =>
        ~after.errorsNull /\ after._errors = before._errors

C30_Step ==
    /\ C30_ErrorsKept(formset, formset')
    /\ C30_ErrorsKept(theForm, theForm')
    /\ built =>
           /\ DOMAIN formset'.forms = DOMAIN formset.forms
           /\ \A k \in DOMAIN formset.forms :
                  C30_ErrorsKept(formset.forms[k], formset'.forms[k])

\* C30: whatever the sequence of reads of errors, isValid(), deletedForms
\* and orderedForms on a formset and of isValid() on its forms, fullClean
\* runs at most once for the formset and at most once for each form, and
\* once an instance has its errors every later read gives the same ones.
C30_CleanedOnce == [](C30_AtMostOnce) /\ [][C30_Step]_vars

\* A valid formset of two forms whose deletedForms and orderedForms have
\* both been read: one fullClean of the formset, one of each form
C30_Witness ==
    /\ built /\ Len(formset.forms) = 2
    /\ outcome.op = "orderedForms" /\ outcome.thrown = ""
    /\ ~formset.deletedUndefined /\ ~formset.orderingUndefined
    /\ formset.fullCleans = 1 /\ ~formset.errorsNull
    /\ \A k \in 1..2 : /\ formset.forms[k].fullCleans = 1
                         /\ ~formset.forms[k].errorsNull
====
